---- MODULE Spec2Model ----
(***************************************************************************)
(* A model of the nurst 6502 core: the CPU interpreter (src/src/cpu/mod.rs, *)
(* execute.rs, addressing.rs, opcodes.rs) and its memory bus                *)
(* (src/src/bus.rs).  Widths are kept: registers are bytes, the program     *)
(* counter is 16 bits.  The two byte arrays of the bus are kept as sparse    *)
(* maps: an index that is absent from the map holds 0, the value Bus::new   *)
(* fills both arrays with.                                                  *)
(***************************************************************************)
EXTENDS Integers, Sequences, FiniteSets, TLC

\* ------------------------------------------------------------------ bounds
\* The driver stops calling step once the cycle counter has reached MaxCycles.
MaxCycles == 24
\* The driver makes at most MaxCalls calls other than step (irq, nmi, reset,
\* set_pc, mem_write).
MaxCalls == 1
\* A driver that raises interrupts between steps raises at most MaxInterrupts.
MaxInterrupts == 2
\* The number of past calls the history keeps.
HistDepth == 3

\* ------------------------------------------------------- program constants
RAM_MIRRORS_END == 8191
PPU_REGISTERS == 8192
PPU_REGISTERS_MIRRORS_END == 16383
PRG_START == 32768
CARTRIDGE_ROM_SIZE == 32768
PRG_MIRROR == 16384
PRG_ROM_PAGE_SIZE == 16384
CHR_ROM_PAGE_SIZE == 8192
HEADER_SIZE == 16
TRAINER_SIZE == 512
STACK_PAGE == 256
IRQ_VECTOR == 65534
RESET_SP == 253
RESET_STATUS == 36
RESET_PC == 32768
FlagC == 1
FlagZ == 2
FlagI == 4
FlagD == 8
FlagB == 16
FlagU == 32
FlagV == 64
FlagN == 128

Byte == 0..255
Word == 0..65535

\* ---------------------------------------------------------- bit arithmetic
RECURSIVE BitAnd(_, _)
\* a & b on naturals.
BitAnd(a, b) ==
    IF a = 0 \/ b = 0 THEN 0
    ELSE (a % 2) * (b % 2) + 2 * BitAnd(a \div 2, b \div 2)

\* a | b on naturals.
BitOr(a, b) == a + b - BitAnd(a, b)

\* a ^ b on naturals.
BitXor(a, b) == a + b - 2 * BitAnd(a, b)

\* !a on a u8.
Not8(a) == 255 - a

\* x as u8, x as u16: the two's complement truncation of an integer.
AsU8(x) == x % 256
AsU16(x) == x % 65536

\* x as i8 for a byte x.
AsI8(x) == IF x >= 128 THEN x - 256 ELSE x

\* ------------------------------------------------------------ sparse arrays
\* arr[i] of a zero-filled array kept as a sparse map.
At(arr, i) == IF i \in DOMAIN arr THEN arr[i] ELSE 0

\* arr[i] = v.
Put(arr, i, v) ==
    [j \in ((DOMAIN arr \cup {i}) \ (IF v = 0 THEN {i} ELSE {})) |->
        IF j = i THEN v ELSE arr[j]]

\* The empty map: an array of zeroes.
Zeroes == [j \in {} |-> 0]

\* ---------------------------------------------------------------------- Bus
\* mem_read mapping PRG-ROM modulo 0x8000, the size of the array, instead of
\* 0x4000: C9_Nrom128Mirror tells it from mem_read.
mem_read_32k(c, addr) ==
    IF addr <= RAM_MIRRORS_END
    THEN At(c.ram, BitAnd(addr, 2047))
    ELSE IF addr <= PPU_REGISTERS_MIRRORS_END
    THEN 0
    ELSE IF addr >= PRG_START
    THEN At(c.cartridge_rom, (addr - PRG_START) % CARTRIDGE_ROM_SIZE)
    ELSE 0

\* Bus::mem_read (and CPU::mem_read, which forwards to it).  c is the machine:
\* the CPU's registers with the bus's arrays ram and cartridge_rom.
mem_read(c, addr) ==
    IF addr <= RAM_MIRRORS_END
    THEN At(c.ram, BitAnd(addr, 2047))
    ELSE IF addr <= PPU_REGISTERS_MIRRORS_END
    THEN 0
    ELSE IF addr >= PRG_START
    THEN At(c.cartridge_rom, (addr - PRG_START) % PRG_MIRROR)
    ELSE 0

\* mem_write with a mirror mask one bit too wide (0x0FFF): C6_RamMirror tells
\* it from mem_write.
mem_write_wide_mask(c, addr, data) ==
    IF addr <= RAM_MIRRORS_END
    THEN [c EXCEPT !.ram = Put(@, BitAnd(addr, 4095), data)]
    ELSE c

\* mem_write with an arm that stores to PRG-ROM: C7_PrgImmutable tells it
\* from mem_write.
mem_write_rom(c, addr, data) ==
    IF addr <= RAM_MIRRORS_END
    THEN [c EXCEPT !.ram = Put(@, BitAnd(addr, 2047), data)]
    ELSE IF addr >= PRG_START
    THEN [c EXCEPT !.cartridge_rom = Put(@, (addr - PRG_START) % PRG_MIRROR, data)]
    ELSE c

\* mem_write whose RAM arm also takes the PPU registers' range:
\* C10_IoInert tells it from mem_write.
mem_write_ppu_as_ram(c, addr, data) ==
    IF addr <= PPU_REGISTERS_MIRRORS_END
    THEN [c EXCEPT !.ram = Put(@, BitAnd(addr, 2047), data)]
    ELSE c

\* Bus::mem_write (and CPU::mem_write).
mem_write(c, addr, data) ==
    IF addr <= RAM_MIRRORS_END
    THEN [c EXCEPT !.ram = Put(@, BitAnd(addr, 2047), data)]
    ELSE c

\* Bus::mem_read_u16: the high byte comes from pos.wrapping_add(1).
mem_read_u16(c, pos) ==
    LET lo == mem_read(c, pos)
        hi == mem_read(c, AsU16(pos + 1))
    IN  BitOr(hi * 256, lo)

\* mem_read_u16_zp reading the high byte from pos + 1 without the wrap, so
\* from 0x0100 for pos = 0xFF: C15_ZeroPagePointers tells it from
\* mem_read_u16_zp.
mem_read_u16_zp_next(c, pos) ==
    LET lo == mem_read(c, pos)
        hi == mem_read(c, pos + 1)
    IN  BitOr(hi * 256, lo)

\* Bus::mem_read_u16_zp: the high byte comes from the zero page.
mem_read_u16_zp(c, pos) ==
    LET lo == mem_read(c, pos)
        hi == mem_read(c, AsU8(pos + 1))
    IN  BitOr(hi * 256, lo)

\* Bus::load_rom: rom is a byte slice, [len, bytes], bytes a sparse map over
\* 0..len-1.  Byte i goes to cartridge_rom[start_addr + i - 0x8000] when
\* start_addr >= 0x8000 and that index is inside the array.
load_rom(arr, rom, start_addr) ==
    LET off == start_addr - PRG_START
        written(j) == start_addr >= PRG_START /\ j - off \in 0..(rom.len - 1)
        src == IF start_addr >= PRG_START
               THEN {i \in DOMAIN rom.bytes : i < rom.len /\ off + i < CARTRIDGE_ROM_SIZE}
               ELSE {}
    IN  [j \in {k \in DOMAIN arr : ~written(k)} \cup {off + i : i \in src} |->
            IF written(j) THEN rom.bytes[j - off] ELSE arr[j]]

\* ---------------------------------------------------------------------- CPU
\* CPU::new, with Bus::new: the registers and two zero-filled arrays.  The
\* fields overflowed and stack_log are bookkeeping of one call: whether an
\* arithmetic operation that is checked in a debug build overflowed, and the
\* addresses push and pop touched.
new ==
    [accumulator |-> 0, program_counter |-> RESET_PC, register_x |-> 0,
     register_y |-> 0, stack_pointer |-> RESET_SP, status |-> RESET_STATUS,
     cycles |-> 0, ram |-> Zeroes, cartridge_rom |-> Zeroes,
     overflowed |-> FALSE, stack_log |-> <<>>]

\* CPU::set_pc.
set_pc(c, pc) == [c EXCEPT !.program_counter = pc]

\* CPU::load.
load(c, rom) == [c EXCEPT !.cartridge_rom = load_rom(@, rom, PRG_START)]

\* program_counter + n (n may be negative) as the build computes it: the sum
\* modulo 2^16, and a note that it left the u16 range, which is a panic in a
\* build with overflow checks.
pc_plus(c, n) ==
    [c EXCEPT !.program_counter = AsU16(@ + n),
              !.overflowed = @ \/ (c.program_counter + n) \notin Word]

\* CPU::fetch_byte: the byte at PC, then PC += 1.
fetch_byte(c) ==
    [c |-> pc_plus(c, 1), v |-> mem_read(c, c.program_counter)]

\* fetch_word that moves PC past one byte only: C34_PcAdvance tells it from
\* fetch_word.
fetch_word_by_one(c) ==
    [c |-> pc_plus(c, 1), v |-> mem_read_u16(c, c.program_counter)]

\* CPU::fetch_word: the word at PC, then PC += 2.
fetch_word(c) ==
    [c |-> pc_plus(c, 2), v |-> mem_read_u16(c, c.program_counter)]

\* CPU::set_flag.
set_flag(c, flag, condition) ==
    [c EXCEPT !.status = IF condition THEN BitOr(@, flag)
                         ELSE BitAnd(@, Not8(flag))]

\* CPU::get_flag.
get_flag(c, flag) == BitAnd(c.status, flag) # 0

\* CPU::set_zn.
set_zn(c, value) ==
    set_flag(set_flag(c, FlagZ, value = 0), FlagN, BitAnd(value, 128) # 0)

\* CPU::set_carry.
set_carry(c, value) == set_flag(c, FlagC, value > 255)

\* CPU::set_overflow.
set_overflow(c, a, b, result) ==
    set_flag(c, FlagV,
             BitAnd(BitAnd(BitXor(a, result), BitXor(b, result)), 128) # 0)

\* reset that leaves the index registers alone: C25_Reset tells it from reset.
reset_keeping_index(c) ==
    [c EXCEPT !.accumulator = 0,
              !.stack_pointer = RESET_SP, !.status = RESET_STATUS,
              !.program_counter = RESET_PC]

\* CPU::reset.
reset(c) ==
    [c EXCEPT !.accumulator = 0, !.register_x = 0, !.register_y = 0,
              !.stack_pointer = RESET_SP, !.status = RESET_STATUS,
              !.program_counter = RESET_PC]

\* The address of the stack slot SP names: 0x0100 | SP.
stack_addr(c) == BitOr(STACK_PAGE, c.stack_pointer)

\* push that decrements SP before it writes: C2_StackWraps tells it from push.
push_predecrement(c, val) ==
    LET u == [c EXCEPT !.stack_pointer = AsU8(@ - 1)]
    IN  [mem_write(u, stack_addr(u), val) EXCEPT !.stack_log = Append(@, stack_addr(u))]

\* CPU::push: write at 0x0100 | SP, then SP = SP.wrapping_sub(1).
push(c, val) ==
    LET w == mem_write(c, stack_addr(c), val)
    IN  [w EXCEPT !.stack_pointer = AsU8(@ - 1),
                  !.stack_log = Append(@, stack_addr(c))]

\* pop that reads before it increments SP: C5_PhaPla tells it from pop.
pop_postincrement(c) ==
    [c |-> [c EXCEPT !.stack_pointer = AsU8(@ + 1),
                     !.stack_log = Append(@, stack_addr(c))],
     v |-> mem_read(c, stack_addr(c))]

\* CPU::pop: SP = SP.wrapping_add(1), then read at 0x0100 | SP.
pop(c) ==
    LET u == [c EXCEPT !.stack_pointer = AsU8(@ + 1)]
    IN  [c |-> [u EXCEPT !.stack_log = Append(@, stack_addr(u))],
         v |-> mem_read(u, stack_addr(u))]

\* load_irq_pc reading the vector at 0xFFFA/0xFFFB: C19_Brk tells it from
\* load_irq_pc.
load_nmi_pc(c) ==
    LET high == mem_read(c, IRQ_VECTOR - 3)
        low == mem_read(c, IRQ_VECTOR - 4)
    IN  [c EXCEPT !.program_counter = BitOr(high * 256, low)]

\* CPU::load_irq_pc: PC from 0xFFFE/0xFFFF.
load_irq_pc(c) ==
    LET high == mem_read(c, IRQ_VECTOR + 1)
        low == mem_read(c, IRQ_VECTOR)
    IN  [c EXCEPT !.program_counter = BitOr(high * 256, low)]

\* irq that pushes the status before the program counter: C31_InterruptRti
\* tells it from irq.
irq_status_first(c) ==
    IF ~get_flag(c, FlagI)
    THEN LET high == c.program_counter \div 256
             low == BitAnd(c.program_counter, 255)
             c1 == push(c, BitOr(c.status, 32))
             c3 == load_irq_pc(push(push(c1, high), low))
         IN  set_flag(c3, FlagI, TRUE)
    ELSE c

\* irq that does not look at I: C18_IrqGated tells it from irq.
irq_ungated(c) ==
    LET high == c.program_counter \div 256
        low == BitAnd(c.program_counter, 255)
        c3 == load_irq_pc(push(push(c, high), low))
    IN  set_flag(push(c3, BitOr(c3.status, 32)), FlagI, TRUE)

\* CPU::irq: only when I is clear.
irq(c) ==
    IF ~get_flag(c, FlagI)
    THEN LET high == c.program_counter \div 256
             low == BitAnd(c.program_counter, 255)
             c3 == load_irq_pc(push(push(c, high), low))
         IN  set_flag(push(c3, BitOr(c3.status, 32)), FlagI, TRUE)
    ELSE c

\* nmi that leaves I as it is: C32_NoNesting tells it from nmi.
nmi_unmasked(c) ==
    LET high == c.program_counter \div 256
        low == BitAnd(c.program_counter, 255)
        c3 == load_irq_pc(push(push(c, high), low))
    IN  push(c3, BitOr(c3.status, 32))

\* CPU::nmi.
nmi(c) ==
    LET high == c.program_counter \div 256
        low == BitAnd(c.program_counter, 255)
        c3 == load_irq_pc(push(push(c, high), low))
    IN  set_flag(push(c3, BitOr(c3.status, 32)), FlagI, TRUE)

\* opcodes::decode: the opcode byte's mnemonic, addressing mode and base cycles.
Instruction(o, m, n) == [opcode |-> o, addressing_mode |-> m, cycles |-> n]

\* opcodes::decode, in the order of the match arms.
decode(opcode) ==
    CASE opcode = 0 -> Instruction("BRK", "Implied", 7)
      [] opcode = 1 -> Instruction("ORA", "IndirectX", 6)
      [] opcode = 5 -> Instruction("ORA", "ZeroPage", 3)
      [] opcode = 9 -> Instruction("ORA", "Immediate", 2)
      [] opcode = 13 -> Instruction("ORA", "Absolute", 4)
      [] opcode = 17 -> Instruction("ORA", "IndirectY", 5)
      [] opcode = 21 -> Instruction("ORA", "ZeroPageX", 4)
      [] opcode = 25 -> Instruction("ORA", "AbsoluteY", 4)
      [] opcode = 29 -> Instruction("ORA", "AbsoluteX", 4)
      [] opcode = 6 -> Instruction("ASL", "ZeroPage", 5)
      [] opcode = 10 -> Instruction("ASL", "Accumulator", 2)
      [] opcode = 14 -> Instruction("ASL", "Absolute", 6)
      [] opcode = 22 -> Instruction("ASL", "ZeroPageX", 6)
      [] opcode = 30 -> Instruction("ASL", "AbsoluteX", 7)
      [] opcode = 8 -> Instruction("PHP", "Implied", 3)
      [] opcode = 16 -> Instruction("BPL", "Relative", 2)
      [] opcode = 24 -> Instruction("CLC", "Implied", 2)
      [] opcode = 32 -> Instruction("JSR", "Absolute", 6)
      [] opcode = 33 -> Instruction("AND", "IndirectX", 6)
      [] opcode = 36 -> Instruction("BIT", "ZeroPage", 3)
      [] opcode = 37 -> Instruction("AND", "ZeroPage", 3)
      [] opcode = 41 -> Instruction("AND", "Immediate", 2)
      [] opcode = 42 -> Instruction("ROL", "Accumulator", 2)
      [] opcode = 44 -> Instruction("BIT", "Absolute", 4)
      [] opcode = 45 -> Instruction("AND", "Absolute", 4)
      [] opcode = 49 -> Instruction("AND", "IndirectY", 5)
      [] opcode = 53 -> Instruction("AND", "ZeroPageX", 4)
      [] opcode = 57 -> Instruction("AND", "AbsoluteY", 4)
      [] opcode = 61 -> Instruction("AND", "AbsoluteX", 4)
      [] opcode = 38 -> Instruction("ROL", "ZeroPage", 5)
      [] opcode = 46 -> Instruction("ROL", "Absolute", 6)
      [] opcode = 54 -> Instruction("ROL", "ZeroPageX", 6)
      [] opcode = 62 -> Instruction("ROL", "AbsoluteX", 7)
      [] opcode = 40 -> Instruction("PLP", "Implied", 4)
      [] opcode = 56 -> Instruction("SEC", "Implied", 2)
      [] opcode = 64 -> Instruction("RTI", "Implied", 6)
      [] opcode = 48 -> Instruction("BMI", "Relative", 2)
      [] opcode = 65 -> Instruction("EOR", "IndirectX", 6)
      [] opcode = 69 -> Instruction("EOR", "ZeroPage", 3)
      [] opcode = 72 -> Instruction("PHA", "Implied", 3)
      [] opcode = 73 -> Instruction("EOR", "Immediate", 2)
      [] opcode = 74 -> Instruction("LSR", "Accumulator", 2)
      [] opcode = 76 -> Instruction("JMP", "Absolute", 3)
      [] opcode = 77 -> Instruction("EOR", "Absolute", 4)
      [] opcode = 81 -> Instruction("EOR", "IndirectY", 5)
      [] opcode = 85 -> Instruction("EOR", "ZeroPageX", 4)
      [] opcode = 89 -> Instruction("EOR", "AbsoluteY", 4)
      [] opcode = 93 -> Instruction("EOR", "AbsoluteX", 4)
      [] opcode = 70 -> Instruction("LSR", "ZeroPage", 5)
      [] opcode = 78 -> Instruction("LSR", "Absolute", 6)
      [] opcode = 86 -> Instruction("LSR", "ZeroPageX", 6)
      [] opcode = 94 -> Instruction("LSR", "AbsoluteX", 7)
      [] opcode = 88 -> Instruction("CLI", "Implied", 2)
      [] opcode = 96 -> Instruction("RTS", "Implied", 6)
      [] opcode = 80 -> Instruction("BVC", "Relative", 2)
      [] opcode = 97 -> Instruction("ADC", "IndirectX", 6)
      [] opcode = 101 -> Instruction("ADC", "ZeroPage", 3)
      [] opcode = 104 -> Instruction("PLA", "Implied", 4)
      [] opcode = 105 -> Instruction("ADC", "Immediate", 2)
      [] opcode = 106 -> Instruction("ROR", "Accumulator", 2)
      [] opcode = 108 -> Instruction("JMP", "Indirect", 5)
      [] opcode = 109 -> Instruction("ADC", "Absolute", 4)
      [] opcode = 113 -> Instruction("ADC", "IndirectY", 5)
      [] opcode = 117 -> Instruction("ADC", "ZeroPageX", 4)
      [] opcode = 121 -> Instruction("ADC", "AbsoluteY", 4)
      [] opcode = 125 -> Instruction("ADC", "AbsoluteX", 4)
      [] opcode = 102 -> Instruction("ROR", "ZeroPage", 5)
      [] opcode = 110 -> Instruction("ROR", "Absolute", 6)
      [] opcode = 118 -> Instruction("ROR", "ZeroPageX", 6)
      [] opcode = 126 -> Instruction("ROR", "AbsoluteX", 7)
      [] opcode = 120 -> Instruction("SEI", "Implied", 2)
      [] opcode = 112 -> Instruction("BVS", "Relative", 2)
      [] opcode = 132 -> Instruction("STY", "ZeroPage", 3)
      [] opcode = 140 -> Instruction("STY", "Absolute", 4)
      [] opcode = 148 -> Instruction("STY", "ZeroPageX", 4)
      [] opcode = 133 -> Instruction("STA", "ZeroPage", 3)
      [] opcode = 141 -> Instruction("STA", "Absolute", 4)
      [] opcode = 129 -> Instruction("STA", "IndirectX", 6)
      [] opcode = 145 -> Instruction("STA", "IndirectY", 6)
      [] opcode = 149 -> Instruction("STA", "ZeroPageX", 4)
      [] opcode = 153 -> Instruction("STA", "AbsoluteY", 5)
      [] opcode = 157 -> Instruction("STA", "AbsoluteX", 5)
      [] opcode = 134 -> Instruction("STX", "ZeroPage", 3)
      [] opcode = 142 -> Instruction("STX", "Absolute", 4)
      [] opcode = 150 -> Instruction("STX", "ZeroPageY", 4)
      [] opcode = 136 -> Instruction("DEY", "Implied", 2)
      [] opcode = 138 -> Instruction("TXA", "Implied", 2)
      [] opcode = 144 -> Instruction("BCC", "Relative", 2)
      [] opcode = 152 -> Instruction("TYA", "Implied", 2)
      [] opcode = 154 -> Instruction("TXS", "Implied", 2)
      [] opcode = 160 -> Instruction("LDY", "Immediate", 2)
      [] opcode = 164 -> Instruction("LDY", "ZeroPage", 3)
      [] opcode = 172 -> Instruction("LDY", "Absolute", 4)
      [] opcode = 180 -> Instruction("LDY", "ZeroPageX", 4)
      [] opcode = 188 -> Instruction("LDY", "AbsoluteX", 4)
      [] opcode = 162 -> Instruction("LDX", "Immediate", 2)
      [] opcode = 166 -> Instruction("LDX", "ZeroPage", 3)
      [] opcode = 174 -> Instruction("LDX", "Absolute", 4)
      [] opcode = 182 -> Instruction("LDX", "ZeroPageY", 4)
      [] opcode = 190 -> Instruction("LDX", "AbsoluteY", 4)
      [] opcode = 165 -> Instruction("LDA", "ZeroPage", 3)
      [] opcode = 169 -> Instruction("LDA", "Immediate", 2)
      [] opcode = 173 -> Instruction("LDA", "Absolute", 4)
      [] opcode = 161 -> Instruction("LDA", "IndirectX", 6)
      [] opcode = 177 -> Instruction("LDA", "IndirectY", 5)
      [] opcode = 181 -> Instruction("LDA", "ZeroPageX", 4)
      [] opcode = 185 -> Instruction("LDA", "AbsoluteY", 4)
      [] opcode = 189 -> Instruction("LDA", "AbsoluteX", 4)
      [] opcode = 168 -> Instruction("TAY", "Implied", 2)
      [] opcode = 170 -> Instruction("TAX", "Implied", 2)
      [] opcode = 176 -> Instruction("BCS", "Relative", 2)
      [] opcode = 184 -> Instruction("CLV", "Implied", 2)
      [] opcode = 186 -> Instruction("TSX", "Implied", 2)
      [] opcode = 192 -> Instruction("CPY", "Immediate", 2)
      [] opcode = 196 -> Instruction("CPY", "ZeroPage", 3)
      [] opcode = 204 -> Instruction("CPY", "Absolute", 4)
      [] opcode = 201 -> Instruction("CMP", "Immediate", 2)
      [] opcode = 193 -> Instruction("CMP", "IndirectX", 6)
      [] opcode = 197 -> Instruction("CMP", "ZeroPage", 3)
      [] opcode = 205 -> Instruction("CMP", "Absolute", 4)
      [] opcode = 209 -> Instruction("CMP", "IndirectY", 5)
      [] opcode = 213 -> Instruction("CMP", "ZeroPageX", 4)
      [] opcode = 217 -> Instruction("CMP", "AbsoluteY", 4)
      [] opcode = 221 -> Instruction("CMP", "AbsoluteX", 4)
      [] opcode = 200 -> Instruction("INY", "Implied", 2)
      [] opcode = 202 -> Instruction("DEX", "Implied", 2)
      [] opcode = 208 -> Instruction("BNE", "Relative", 2)
      [] opcode = 216 -> Instruction("CLD", "Implied", 2)
      [] opcode = 198 -> Instruction("DEC", "ZeroPage", 5)
      [] opcode = 206 -> Instruction("DEC", "Absolute", 6)
      [] opcode = 214 -> Instruction("DEC", "ZeroPageX", 6)
      [] opcode = 222 -> Instruction("DEC", "AbsoluteX", 7)
      [] opcode = 224 -> Instruction("CPX", "Immediate", 2)
      [] opcode = 228 -> Instruction("CPX", "ZeroPage", 3)
      [] opcode = 236 -> Instruction("CPX", "Absolute", 4)
      [] opcode = 233 -> Instruction("SBC", "Immediate", 2)
      [] opcode = 225 -> Instruction("SBC", "IndirectX", 6)
      [] opcode = 229 -> Instruction("SBC", "ZeroPage", 3)
      [] opcode = 237 -> Instruction("SBC", "Absolute", 4)
      [] opcode = 241 -> Instruction("SBC", "IndirectY", 5)
      [] opcode = 245 -> Instruction("SBC", "ZeroPageX", 4)
      [] opcode = 249 -> Instruction("SBC", "AbsoluteY", 4)
      [] opcode = 253 -> Instruction("SBC", "AbsoluteX", 4)
      [] opcode = 232 -> Instruction("INX", "Implied", 2)
      [] opcode = 234 -> Instruction("NOP", "Implied", 2)
      [] opcode = 240 -> Instruction("BEQ", "Relative", 2)
      [] opcode = 248 -> Instruction("SED", "Implied", 2)
      [] opcode = 230 -> Instruction("INC", "ZeroPage", 5)
      [] opcode = 238 -> Instruction("INC", "Absolute", 6)
      [] opcode = 246 -> Instruction("INC", "ZeroPageX", 6)
      [] opcode = 254 -> Instruction("INC", "AbsoluteX", 7)
      [] OTHER -> Instruction("Unknown", "Indirect", 0)

\* The Indirect arm reading the high byte from ptr + 1 whatever ptr is:
\* C14_IndirectJmp tells it from indirect_addr.
indirect_addr_next_page(c, ptr) == mem_read_u16(c, ptr)

\* The Indirect arm of resolve_addr: the word at ptr, whose high byte comes
\* from the start of ptr's page when ptr is the last byte of a page.
indirect_addr(c, ptr) ==
    IF BitAnd(ptr, 255) = 255
    THEN LET lo == mem_read(c, ptr)
             hi == mem_read(c, BitAnd(ptr, 65280))
         IN  BitOr(hi * 256, lo)
    ELSE mem_read_u16(c, ptr)

\* resolve_addr whose zero-page indexed sums carry into page 1:
\* C35_IndexedWraps tells it from resolve_addr.
resolve_addr_zp_carry(c, mode) ==
    CASE mode = "Relative" ->
            LET f == fetch_byte(c)
            IN  [c |-> f.c, v |-> AsU16(f.c.program_counter + AsU16(AsI8(f.v)))]
      [] mode \in {"Implied", "Accumulator"} -> [c |-> c, v |-> 0]
      [] mode = "Immediate" -> [c |-> pc_plus(c, 1), v |-> c.program_counter]
      [] mode = "ZeroPage" -> fetch_byte(c)
      [] mode = "ZeroPageX" ->
            LET f == fetch_byte(c)
            IN  [c |-> f.c, v |-> f.v + c.register_x]
      [] mode = "ZeroPageY" ->
            LET f == fetch_byte(c)
            IN  [c |-> f.c, v |-> f.v + c.register_y]
      [] mode = "Absolute" -> fetch_word(c)
      [] mode = "Indirect" ->
            LET f == fetch_word(c)
            IN  [c |-> f.c, v |-> indirect_addr(c, f.v)]
      [] mode = "AbsoluteX" ->
            LET f == fetch_word(c)
            IN  [c |-> f.c, v |-> AsU16(f.v + c.register_x)]
      [] mode = "AbsoluteY" ->
            LET f == fetch_word(c)
            IN  [c |-> f.c, v |-> AsU16(f.v + c.register_y)]
      [] mode = "IndirectX" ->
            LET f == fetch_byte(c)
                ptr == AsU8(f.v + c.register_x)
            IN  [c |-> f.c, v |-> mem_read_u16_zp(c, ptr)]
      [] mode = "IndirectY" ->
            LET f == fetch_byte(c)
                ptr == mem_read_u16_zp(c, f.v)
            IN  [c |-> f.c, v |-> AsU16(ptr + c.register_y)]

\* CPU::resolve_addr: the effective address of the mode, with PC moved past
\* the operand bytes.
resolve_addr(c, mode) ==
    CASE mode = "Relative" ->
            LET f == fetch_byte(c)
            IN  [c |-> f.c, v |-> AsU16(f.c.program_counter + AsU16(AsI8(f.v)))]
      [] mode \in {"Implied", "Accumulator"} -> [c |-> c, v |-> 0]
      [] mode = "Immediate" -> [c |-> pc_plus(c, 1), v |-> c.program_counter]
      [] mode = "ZeroPage" -> fetch_byte(c)
      [] mode = "ZeroPageX" ->
            LET f == fetch_byte(c)
            IN  [c |-> f.c, v |-> AsU8(f.v + c.register_x)]
      [] mode = "ZeroPageY" ->
            LET f == fetch_byte(c)
            IN  [c |-> f.c, v |-> AsU8(f.v + c.register_y)]
      [] mode = "Absolute" -> fetch_word(c)
      [] mode = "Indirect" ->
            LET f == fetch_word(c)
            IN  [c |-> f.c, v |-> indirect_addr(c, f.v)]
      [] mode = "AbsoluteX" ->
            LET f == fetch_word(c)
            IN  [c |-> f.c, v |-> AsU16(f.v + c.register_x)]
      [] mode = "AbsoluteY" ->
            LET f == fetch_word(c)
            IN  [c |-> f.c, v |-> AsU16(f.v + c.register_y)]
      [] mode = "IndirectX" ->
            LET f == fetch_byte(c)
                ptr == AsU8(f.v + c.register_x)
            IN  [c |-> f.c, v |-> mem_read_u16_zp(c, ptr)]
      [] mode = "IndirectY" ->
            LET f == fetch_byte(c)
                ptr == mem_read_u16_zp(c, f.v)
            IN  [c |-> f.c, v |-> AsU16(ptr + c.register_y)]

\* adc that leaves the carry flag out of the sum: C11_Adc tells it from adc.
adc_without_carry(c, val, acc) ==
    LET sum == acc + val
        result == AsU8(sum)
    IN  [c |-> set_zn(set_overflow(set_carry(c, sum), val, acc, result), result),
         v |-> result]

\* adc that adjusts the sum to decimal when D is set: C39_DecimalIgnored tells
\* it from adc.
adc_decimal(c, val, acc) ==
    LET carry == IF get_flag(c, FlagC) THEN 1 ELSE 0
        binary == acc + val + carry
        sum == IF get_flag(c, FlagD) /\ (acc % 16) + (val % 16) + carry > 9
               THEN binary + 6
               ELSE binary
        result == AsU8(sum)
    IN  [c |-> set_zn(set_overflow(set_carry(c, sum), val, acc, result), result),
         v |-> result]

\* CPU::adc: the new accumulator and the flags C, V, Z, N.
adc(c, val, acc) ==
    LET carry == IF get_flag(c, FlagC) THEN 1 ELSE 0
        sum == acc + val + carry
        result == AsU8(sum)
    IN  [c |-> set_zn(set_overflow(set_carry(c, sum), val, acc, result), result),
         v |-> result]

\* sbc that borrows when the carry is set: C12_Sbc tells it from sbc.
sbc_carry_as_borrow(c, acc, mem) ==
    LET carry == IF get_flag(c, FlagC) THEN 1 ELSE 0
        sub == acc - mem - carry
        overflow == BitAnd(BitAnd(BitXor(AsU16(sub), acc),
                                  BitXor(AsU16(sub), 65535 - mem)), 128)
        c1 == set_flag(c, FlagV, overflow # 0)
        c2 == set_flag(c1, FlagC, sub >= 0)
        result == AsU8(sub)
    IN  [c |-> set_zn(c2, result), v |-> result]

\* CPU::sbc: computed in i16; the bit patterns are those of two's complement.
sbc(c, acc, mem) ==
    LET carry == IF get_flag(c, FlagC) THEN 0 ELSE 1
        sub == acc - mem - carry
        overflow == BitAnd(BitAnd(BitXor(AsU16(sub), acc),
                                  BitXor(AsU16(sub), 65535 - mem)), 128)
        c1 == set_flag(c, FlagV, overflow # 0)
        c2 == set_flag(c1, FlagC, sub >= 0)
        result == AsU8(sub)
    IN  [c |-> set_zn(c2, result), v |-> result]

\* A branch that is always taken: C33_Branches tells it from branch.
branch_always(c, condition, addr) == [c EXCEPT !.program_counter = addr]

\* A branch: PC <- addr when the condition holds.
branch(c, condition, addr) ==
    IF condition THEN [c EXCEPT !.program_counter = addr] ELSE c

\* A compare whose carry means strictly greater: C13_Compare tells it from
\* compare.
compare_strict(c, reg, val) ==
    LET result == AsU8(reg - val)
        c1 == set_flag(c, FlagC, reg > val)
        c2 == set_flag(c1, FlagZ, reg = val)
    IN  set_flag(c2, FlagN, BitAnd(result, 128) # 0)

\* The compare instructions: C, Z, N from reg and the operand.
compare(c, reg, val) ==
    LET result == AsU8(reg - val)
        c1 == set_flag(c, FlagC, reg >= val)
        c2 == set_flag(c1, FlagZ, reg = val)
    IN  set_flag(c2, FlagN, BitAnd(result, 128) # 0)

\* shift whose rotates take no carry in: C36_Shifts tells it from shift.
shift_without_carry_in(c, op, val) ==
    CASE op \in {"ASL", "ROL"} -> [v |-> AsU8(val * 2), carry |-> BitAnd(val, 128) # 0]
      [] op \in {"LSR", "ROR"} -> [v |-> val \div 2, carry |-> BitAnd(val, 1) # 0]

\* ASL, LSR, ROL, ROR on the byte val: the result and the new carry.
shift(c, op, val) ==
    LET carry_flag == IF get_flag(c, FlagC) THEN 1 ELSE 0
    IN  CASE op = "ASL" -> [v |-> AsU8(val * 2), carry |-> BitAnd(val, 128) # 0]
          [] op = "LSR" -> [v |-> val \div 2, carry |-> BitAnd(val, 1) # 0]
          [] op = "ROL" -> [v |-> BitOr(AsU8(val * 2), carry_flag),
                            carry |-> BitAnd(val, 128) # 0]
          [] op = "ROR" -> [v |-> BitOr(val \div 2, AsU8(carry_flag * 128)),
                            carry |-> BitAnd(val, 1) # 0]

\* bit that takes N and V from A & val: C37_Bit tells it from bit.
bit_of_and(c, val) ==
    LET and == BitAnd(val, c.accumulator)
        c1 == set_flag(c, FlagN, BitAnd(and, 128) # 0)
        c2 == set_flag(c1, FlagV, BitAnd(and, 64) # 0)
    IN  set_flag(c2, FlagZ, and = 0)

\* BIT on the byte val: N and V from val, Z from val & A.
bit(c, val) ==
    LET c1 == set_flag(c, FlagN, BitAnd(val, 128) # 0)
        c2 == set_flag(c1, FlagV, BitAnd(val, 64) # 0)
    IN  set_flag(c2, FlagZ, BitAnd(val, c.accumulator) = 0)

\* txs that sets Z and N as the other transfers do: C38_NoFlags tells it from
\* txs.
txs_setting_zn(c) == set_zn([c EXCEPT !.stack_pointer = c.register_x], c.register_x)

\* TXS: SP <- X.
txs(c) == [c EXCEPT !.stack_pointer = c.register_x]

\* The popped byte taken as it is: C1_StatusBits tells it from pulled_status.
pulled_status_raw(v) == v

\* The status PLP and RTI load from the popped byte: (pop() & 0xEF) | 0x20.
pulled_status(v) == BitOr(BitAnd(v, 239), 32)

\* The status pushed without B and U forced: C4_PhpPlp tells it from
\* pushed_status.
pushed_status_plain(c) == c.status

\* The byte PHP and BRK push: status | 0x30.
pushed_status(c) == BitOr(c.status, 48)

\* The address after the operand taken as the return address: C3_JsrRts tells
\* it from return_addr.
return_addr_next(c) == c.program_counter

\* JSR's return address: program_counter - 1, PC being past the operand.
return_addr(c) == pc_plus(c, -1).program_counter

\* The match of CPU::execute: c is the machine after resolve_addr and addr the
\* address it returned.
execute_match(c, addr, instruction) ==
    LET op == instruction.opcode
        m == mem_read(c, addr)
    IN  CASE op = "LDA" -> set_zn([c EXCEPT !.accumulator = m], m)
          [] op = "LDX" -> set_zn([c EXCEPT !.register_x = m], m)
          [] op = "LDY" -> set_zn([c EXCEPT !.register_y = m], m)
          [] op = "STA" -> mem_write(c, addr, c.accumulator)
          [] op = "STX" -> mem_write(c, addr, c.register_x)
          [] op = "STY" -> mem_write(c, addr, c.register_y)
          [] op = "TAX" -> set_zn([c EXCEPT !.register_x = c.accumulator], c.accumulator)
          [] op = "TAY" -> set_zn([c EXCEPT !.register_y = c.accumulator], c.accumulator)
          [] op = "TSX" -> set_zn([c EXCEPT !.register_x = c.stack_pointer], c.stack_pointer)
          [] op = "TXS" -> txs(c)
          [] op = "TXA" -> set_zn([c EXCEPT !.accumulator = c.register_x], c.register_x)
          [] op = "TYA" -> set_zn([c EXCEPT !.accumulator = c.register_y], c.register_y)
          [] op = "ADC" -> LET a == adc(c, m, c.accumulator)
                           IN  [a.c EXCEPT !.accumulator = a.v]
          [] op = "SBC" -> LET a == sbc(c, c.accumulator, m)
                           IN  [a.c EXCEPT !.accumulator = a.v]
          [] op = "INC" -> LET res == AsU8(m + 1)
                           IN  set_zn(mem_write(c, addr, res), res)
          [] op = "INX" -> LET res == AsU8(c.register_x + 1)
                           IN  set_zn([c EXCEPT !.register_x = res], res)
          [] op = "INY" -> LET res == AsU8(c.register_y + 1)
                           IN  set_zn([c EXCEPT !.register_y = res], res)
          [] op = "DEC" -> LET res == AsU8(m - 1)
                           IN  set_zn(mem_write(c, addr, res), res)
          [] op = "DEX" -> LET res == AsU8(c.register_x - 1)
                           IN  set_zn([c EXCEPT !.register_x = res], res)
          [] op = "DEY" -> LET res == AsU8(c.register_y - 1)
                           IN  set_zn([c EXCEPT !.register_y = res], res)
          [] op \in {"ASL", "LSR", "ROL", "ROR"} ->
                IF instruction.addressing_mode = "Accumulator"
                THEN LET s == shift(c, op, c.accumulator)
                         c1 == set_flag(c, FlagC, s.carry)
                     IN  set_zn([c1 EXCEPT !.accumulator = s.v], s.v)
                ELSE LET s == shift(c, op, m)
                         c1 == set_flag(c, FlagC, s.carry)
                     IN  set_zn(mem_write(c1, addr, s.v), s.v)
          [] op = "AND" -> LET res == BitAnd(m, c.accumulator)
                           IN  set_zn([c EXCEPT !.accumulator = res], res)
          [] op = "ORA" -> LET res == BitOr(m, c.accumulator)
                           IN  set_zn([c EXCEPT !.accumulator = res], res)
          [] op = "EOR" -> LET res == BitXor(c.accumulator, m)
                           IN  set_zn([c EXCEPT !.accumulator = res], res)
          [] op = "BIT" -> bit(c, m)
          [] op = "CMP" -> compare(c, c.accumulator, m)
          [] op = "CPX" -> compare(c, c.register_x, m)
          [] op = "CPY" -> compare(c, c.register_y, m)
          [] op = "BCC" -> branch(c, ~get_flag(c, FlagC), addr)
          [] op = "BCS" -> branch(c, get_flag(c, FlagC), addr)
          [] op = "BEQ" -> branch(c, get_flag(c, FlagZ), addr)
          [] op = "BMI" -> branch(c, get_flag(c, FlagN), addr)
          [] op = "BNE" -> branch(c, ~get_flag(c, FlagZ), addr)
          [] op = "BPL" -> branch(c, ~get_flag(c, FlagN), addr)
          [] op = "BVC" -> branch(c, ~get_flag(c, FlagV), addr)
          [] op = "BVS" -> branch(c, get_flag(c, FlagV), addr)
          [] op = "BRK" ->
                LET c1 == pc_plus(c, 1)
                    high == c1.program_counter \div 256
                    low == BitAnd(c1.program_counter, 255)
                    c2 == push(push(c1, high), low)
                    c3 == push(c2, pushed_status(c2))
                IN  load_irq_pc(set_flag(c3, FlagI, TRUE))
          [] op = "CLC" -> set_flag(c, FlagC, FALSE)
          [] op = "CLD" -> set_flag(c, FlagD, FALSE)
          [] op = "CLI" -> set_flag(c, FlagI, FALSE)
          [] op = "CLV" -> set_flag(c, FlagV, FALSE)
          [] op = "JMP" -> [c EXCEPT !.program_counter = addr]
          [] op = "JSR" ->
                LET c1 == pc_plus(c, -1)
                    high == return_addr(c) \div 256
                    low == BitAnd(return_addr(c), 255)
                    c2 == push(push(c1, high), low)
                IN  [c2 EXCEPT !.program_counter = addr]
          [] op = "SEC" -> set_flag(c, FlagC, TRUE)
          [] op = "SED" -> set_flag(c, FlagD, TRUE)
          [] op = "SEI" -> set_flag(c, FlagI, TRUE)
          [] op = "PHA" -> push(c, c.accumulator)
          [] op = "PHP" -> push(c, pushed_status(c))
          [] op = "PLA" -> LET p == pop(c)
                           IN  set_zn([p.c EXCEPT !.accumulator = p.v], p.v)
          [] op = "PLP" -> LET p == pop(c)
                           IN  [p.c EXCEPT !.status = pulled_status(p.v)]
          [] op = "RTS" ->
                LET low == pop(c)
                    high == pop(low.c)
                    c1 == [high.c EXCEPT !.program_counter = BitOr(high.v * 256, low.v)]
                IN  pc_plus(c1, 1)
          [] op = "RTI" ->
                LET p == pop(c)
                    c1 == [p.c EXCEPT !.status = pulled_status(p.v)]
                    low == pop(c1)
                    high == pop(low.c)
                IN  [high.c EXCEPT !.program_counter = BitOr(high.v * 256, low.v)]
          [] op = "NOP" -> c
          [] OTHER -> c

\* CPU::execute.
execute(c0, instruction) ==
    LET r == resolve_addr(c0, instruction.addressing_mode)
    IN  execute_match(r.c, r.v, instruction)

\* step that charges every instruction two cycles: C22_Cycles tells it from
\* step.
step_two_cycles(c) ==
    LET f == fetch_byte(c)
        instruction == decode(f.v)
        e == execute(f.c, instruction)
    IN  [e EXCEPT !.cycles = @ + 2]

\* CPU::step.
step(c) ==
    LET f == fetch_byte(c)
        instruction == decode(f.v)
        e == execute(f.c, instruction)
    IN  [e EXCEPT !.cycles = @ + instruction.cycles]

\* ----------------------------------------------------------- the ROM loader
\* rom.rs NES_TAG: "NES" and the MS-DOS end of file.
NES_TAG == <<78, 69, 83, 26>>

\* The two messages Rom::new returns as Err: the file does not start with
\* NES_TAG, and the header is of the NES 2.0 format.
InvalidHeader == "File is not in iNES format"
UnsupportedVersion == "NES2.0 format is not supported"

\* The three outcomes of Rom::new: a Rom, an Err with its message, and the
\* panic of an index or a slice out of the bounds of raw.
Ok(prg_rom, chr_rom, mapper, mirroring) ==
    [kind |-> "Ok", prg_rom |-> prg_rom, chr_rom |-> chr_rom,
     mapper |-> mapper, mirroring |-> mirroring]
Err(message) == [kind |-> "Err", error |-> message]
IndexPanic == [kind |-> "Panic"]

\* raw[a..b] of a slice raw that has at least b bytes.
Slice(raw, a, b) ==
    [len |-> b - a,
     bytes |-> [i \in {j - a : j \in {k \in DOMAIN raw.bytes : a <= k /\ k < b}} |->
                   raw.bytes[i + a]]]

\* The mapper of the two flag bytes: (raw[7] & 0xF0) | (raw[6] >> 4).
mapper_of(flags6, flags7) == BitOr(BitAnd(flags7, 240), flags6 \div 16)

\* Vertical taken before FourScreen: C29_HeaderFlags tells it from
\* mirroring_of.
mirroring_vertical_first(flags6) ==
    IF BitAnd(flags6, 1) # 0 THEN "Vertical"
    ELSE IF BitAnd(flags6, 8) # 0 THEN "FourScreen"
    ELSE "Horizontal"

\* The match on (four_screen, vertical_mirroring) of Rom::new.
mirroring_of(flags6) ==
    LET four_screen == BitAnd(flags6, 8) # 0
        vertical_mirroring == BitAnd(flags6, 1) # 0
    IN  IF four_screen THEN "FourScreen"
        ELSE IF vertical_mirroring THEN "Vertical"
        ELSE "Horizontal"

\* prg_rom_start that ignores the trainer: C28_Extraction tells it from
\* prg_rom_start.
prg_rom_start_without_trainer(flags6) == HEADER_SIZE

\* prg_rom_start of Rom::new: past the header, and past the trainer when bit
\* 2 of raw[6] is set.
prg_rom_start(flags6) ==
    LET skip_trainer == BitAnd(flags6, 4) # 0
    IN  HEADER_SIZE + (IF skip_trainer THEN TRAINER_SIZE ELSE 0)

\* Rom::new from the mirroring on, for a raw of at least 8 bytes: the two
\* slices panic when raw ends before their end.
rom_of(raw) ==
    LET flags6 == At(raw.bytes, 6)
        flags7 == At(raw.bytes, 7)
        mapper == mapper_of(flags6, flags7)
        mirroring == mirroring_of(flags6)
        prg_rom_size == At(raw.bytes, 4) * PRG_ROM_PAGE_SIZE
        chr_rom_size == At(raw.bytes, 5) * CHR_ROM_PAGE_SIZE
        start == prg_rom_start(flags6)
        chr_rom_start == start + prg_rom_size
    IN  IF start + prg_rom_size > raw.len \/ chr_rom_start + chr_rom_size > raw.len
        THEN IndexPanic
        ELSE Ok(Slice(raw, start, start + prg_rom_size),
                Slice(raw, chr_rom_start, chr_rom_start + chr_rom_size),
                mapper, mirroring)

\* The first four bytes of raw are NES_TAG.
tagged(raw) == \A i \in 1..4 : At(raw.bytes, i - 1) = NES_TAG[i]

\* Bits 2-3 of raw[7].
ines_ver(raw) == (At(raw.bytes, 7) \div 4) % 4

\* Rom::new checking the version before the tag: C27_ValidationOrder tells it
\* from Rom_new.
Rom_new_version_first(raw) ==
    IF raw.len < 8 THEN IndexPanic
    ELSE IF ines_ver(raw) # 0 THEN Err(UnsupportedVersion)
    ELSE IF ~tagged(raw) THEN Err(InvalidHeader)
    ELSE rom_of(raw)

\* Rom::new: raw[0..4] panics on fewer than 4 bytes and raw[7] on fewer
\* than 8.
Rom_new(raw) ==
    IF raw.len < 4 THEN IndexPanic
    ELSE IF ~tagged(raw) THEN Err(InvalidHeader)
    ELSE IF raw.len < 8 THEN IndexPanic
    ELSE IF ines_ver(raw) # 0 THEN Err(UnsupportedVersion)
    ELSE rom_of(raw)

\* --------------------------------------------------------------- the tracer
\* The digits of {:X}.
HexDigits ==
    <<"0", "1", "2", "3", "4", "5", "6", "7", "8", "9", "A", "B", "C", "D", "E", "F">>

\* {:02X} and {:04X}: n in upper-case hexadecimal, zero-padded to the width,
\* for n below 16^width.
Hex(n, width) == [i \in 1..width |-> HexDigits[((n \div (16 ^ (width - i))) % 16) + 1]]

\* {}: n in decimal.
RECURSIVE Dec(_)
Dec(n) == IF n < 10 THEN <<HexDigits[n + 1]>>
          ELSE Dec(n \div 10) \o <<HexDigits[(n % 10) + 1]>>

\* One disassembled instruction: the format string, the mnemonic and the
\* formatted arguments after it.
Disasm(form, mnemonic, args) == [form |-> form, mnemonic |-> mnemonic, args |-> args]

\* CPU::disassemble, with pc + 1 taken modulo 2^16.
disassemble(c, pc, instruction) ==
    LET mnemonic == instruction.opcode
        mode == instruction.addressing_mode
        next == AsU16(pc + 1)
    IN  CASE mode = "Implied" -> Disasm("{}", mnemonic, <<>>)
          [] mode = "Accumulator" -> Disasm("{:?} {}", mnemonic, <<"A">>)
          [] mode = "Immediate" ->
                LET value == mem_read(c, next)
                IN  Disasm("{} #${:02X}", mnemonic, <<Hex(value, 2)>>)
          [] mode = "ZeroPage" ->
                LET addr == mem_read(c, next)
                    value == mem_read(c, addr)
                IN  Disasm("{} ${:02X} = {:02X}", mnemonic, <<Hex(addr, 2), Hex(value, 2)>>)
          [] mode = "ZeroPageX" ->
                LET addr == mem_read(c, next)
                    effective == AsU8(addr + c.register_x)
                    value == mem_read(c, effective)
                IN  Disasm("{} ${:02X},X @ {:02X} = {:02X}", mnemonic,
                           <<Hex(addr, 2), Hex(effective, 2), Hex(value, 2)>>)
          [] mode = "ZeroPageY" ->
                LET addr == mem_read(c, next)
                    effective == AsU8(addr + c.register_y)
                    value == mem_read(c, effective)
                IN  Disasm("{} ${:02X},Y @ {:02X} = {:02X}", mnemonic,
                           <<Hex(addr, 2), Hex(effective, 2), Hex(value, 2)>>)
          [] mode = "Absolute" ->
                LET addr == mem_read_u16(c, next)
                IN  IF mnemonic = "JMP" \/ mnemonic = "JSR"
                    THEN Disasm("{} ${:04X}", mnemonic, <<Hex(addr, 4)>>)
                    ELSE Disasm("{} ${:04X} = {:02X}", mnemonic,
                                <<Hex(addr, 4), Hex(mem_read(c, addr), 2)>>)
          [] mode = "AbsoluteX" ->
                LET addr == mem_read_u16(c, next)
                    effective == AsU16(addr + c.register_x)
                    value == mem_read(c, effective)
                IN  Disasm("{} ${:04X},X @ {:04X} = {:02X}", mnemonic,
                           <<Hex(addr, 4), Hex(effective, 4), Hex(value, 2)>>)
          [] mode = "AbsoluteY" ->
                LET addr == mem_read_u16(c, next)
                    effective == AsU16(addr + c.register_y)
                    value == mem_read(c, effective)
                IN  Disasm("{} ${:04X},Y @ {:04X} = {:02X}", mnemonic,
                           <<Hex(addr, 4), Hex(effective, 4), Hex(value, 2)>>)
          [] mode = "Indirect" ->
                LET ptr == mem_read_u16(c, next)
                    addr == IF BitAnd(ptr, 255) = 255
                            THEN LET lo == mem_read(c, ptr)
                                     hi == mem_read(c, BitAnd(ptr, 65280))
                                 IN  BitOr(hi * 256, lo)
                            ELSE mem_read_u16(c, ptr)
                IN  Disasm("{} (${:04X}) = {:04X}", mnemonic, <<Hex(ptr, 4), Hex(addr, 4)>>)
          [] mode = "IndirectX" ->
                LET ptr == mem_read(c, next)
                    ptr_addr == AsU8(ptr + c.register_x)
                    addr == mem_read_u16(c, ptr_addr)
                    value == mem_read(c, addr)
                IN  Disasm("{} (${:02X},X) @ {:02X} = {:04X} = {:02X}", mnemonic,
                           <<Hex(ptr, 2), Hex(ptr_addr, 2), Hex(addr, 4), Hex(value, 2)>>)
          [] mode = "IndirectY" ->
                LET ptr == mem_read(c, next)
                    addr == mem_read_u16(c, ptr)
                    effective == AsU16(addr + c.register_y)
                    value == mem_read(c, effective)
                IN  Disasm("{} (${:02X}),Y = {:04X} @ {:04X} = {:02X}", mnemonic,
                           <<Hex(ptr, 2), Hex(addr, 4), Hex(effective, 4), Hex(value, 2)>>)
          [] mode = "Relative" ->
                LET offset == AsI8(mem_read(c, next))
                    target == AsU16(pc + 2 + offset)
                IN  Disasm("{} ${:04X}", mnemonic, <<Hex(target, 4)>>)

\* The number of bytes CPU::trace reads for an instruction of the mode.
trace_size(mode) ==
    CASE mode \in {"Implied", "Accumulator"} -> 1
      [] mode \in {"Immediate", "ZeroPage", "ZeroPageX", "ZeroPageY",
                   "IndirectX", "IndirectY", "Relative"} -> 2
      [] OTHER -> 3

\* The line of CPU::trace for the machine c, field by field, and c itself
\* with a note that pc + 1 or pc + 2 left the u16 range.
trace_line(c, t) ==
    LET pc == c.program_counter
        opcode == mem_read(c, pc)
        instruction == decode(opcode)
        size == trace_size(instruction.addressing_mode)
        byte1 == mem_read(c, AsU16(pc + 1))
        byte2 == mem_read(c, AsU16(pc + 2))
    IN  [c |-> [t EXCEPT !.overflowed = @ \/ (pc + size - 1) \notin Word],
         v |-> [form |-> "{:04X}  {}  {:<32}A:{:02X} X:{:02X} Y:{:02X} P:{:02X} SP:{:02X} CYC:{}",
                pc |-> Hex(pc, 4),
                bytes |-> SubSeq(<<Hex(opcode, 2), Hex(byte1, 2), Hex(byte2, 2)>>, 1, size),
                disasm |-> disassemble(c, pc, instruction),
                a |-> Hex(c.accumulator, 2),
                x |-> Hex(c.register_x, 2),
                y |-> Hex(c.register_y, 2),
                p |-> Hex(c.status, 2),
                sp |-> Hex(c.stack_pointer, 2),
                cyc |-> Dec(c.cycles)]]

\* trace that consumes the opcode byte as fetch_byte does: C23_TraceIsPure
\* tells it from trace.
trace_fetching(c) == trace_line(c, pc_plus(c, 1))

\* CPU::trace: it takes &self, so the machine is as it was.
trace(c) == trace_line(c, c)

\* --------------------------------------------------------------- the inputs
\* The bytes of seq placed at index `at` of an image.
Bytes(at, seq) ==
    [i \in {at + k - 1 : k \in {n \in 1..Len(seq) : seq[n] # 0}} |-> seq[i - at + 1]]

\* The index of the address addr in a 16 KB image mapped at 0x8000 and 0xC000.
Off(addr) == (addr - PRG_START) % PRG_ROM_PAGE_SIZE

\* A 16 KB PRG image (NROM-128) with the given bytes, zero elsewhere.
Image16(bytes) == [len |-> PRG_ROM_PAGE_SIZE, bytes |-> bytes]

\* A 32 KB PRG image (NROM-256): the bytes, and in its upper half a NOP at
\* index 0x4000 and the three vectors pointing at 0xC000.
Image32(bytes) ==
    [len |-> 2 * PRG_ROM_PAGE_SIZE,
     bytes |-> bytes @@ Bytes(PRG_ROM_PAGE_SIZE, <<234>>)
               @@ Bytes(2 * PRG_ROM_PAGE_SIZE - 6, <<0, 192, 0, 192, 0, 192>>)]

\* The NMI, reset and IRQ/BRK vectors pointing at 0x8020, 0x8030 and 0x8040,
\* and an RTI at 0x8040.
Handler ==
    Bytes(Off(IRQ_VECTOR) - 4, <<32, 128, 48, 128, 64, 128>>) @@ Bytes(64, <<64>>)

\* LDX #sp0; TXS; LDA #v; PHA; PLP; PHP; PLP; BRK.
PlpProg(sp0, v) ==
    Image16(Bytes(0, <<162, sp0, 154, 169, v, 72, 40, 8, 40>>) @@ Handler)

\* LDX #sp0; TXS; LDA #v; PHA; PHA; PHA; RTI.
RtiProg(sp0, v) ==
    Image16(Bytes(0, <<162, sp0, 154, 169, v, 72, 72, 72, 64>>) @@ Handler)

\* LDX #sp0; TXS; LDA #v; PHA; LDA #$55; PLA; PHA; PLA.
AccProg(sp0, v) ==
    Image16(Bytes(0, <<162, sp0, 154, 169, v, 72, 169, 85, 104, 72, 104>>) @@ Handler)

\* LDX #sp0; TXS; JMP a;  a: JSR t;  t: NOP; RTS.
JsrProg(sp0, a, t) ==
    Image16(Bytes(0, <<162, sp0, 154, 76, a % 256, a \div 256>>)
            @@ Bytes(Off(a), <<32, t % 256, t \div 256>>)
            @@ Bytes(Off(t), <<234, 96>>))

\* LDX #x; LDA $80FF,X; CPX #1; BCS +2; NOP; NOP; NOP: the indexed read
\* crosses a page and the branch is taken exactly when x >= 1.
CycleProg(x) ==
    Image16(Bytes(0, <<162, x, 189, 255, 128, 224, 1, 176, 2, 234, 234, 234>>)
            @@ Handler)

\* Index values of CycleProg: without and with the page crossing.
CycleIndexes == {0, 1}

\* Stack pointers the programs start from: both ends of the page and the
\* reset value.
StackPointers == {0, 1, 255, 253}

\* Bytes pushed and pulled: zero, all ones, B alone, N and C.
Values == {0, 16, 129, 255}

\* Addresses of a JSR: inside a page, with the return address on the next
\* page, and at the top of the address space.
JsrAddrs == {32784, 33021, 65532, 65533}

\* Targets of a JSR.
JsrTargets == {49443}

CpuImages ==
    {PlpProg(s, v) : s \in StackPointers, v \in Values}
    \cup {RtiProg(s, v) : s \in StackPointers, v \in Values}
    \cup {AccProg(s, v) : s \in StackPointers, v \in Values}
    \cup {JsrProg(s, a, t) : s \in StackPointers, a \in JsrAddrs, t \in JsrTargets}
    \cup {CycleProg(x) : x \in CycleIndexes}

\* The entry point the driver may set (main.rs sets 0xC000).
EntryPoints == {49152}

\* The bus writes the driver may make: (address, data).
Writes == {<<2049, 64>>, <<510, 170>>}

\* LDA #v; STA $1801; STA $8003; INC $C004: stores to a RAM mirror and to
\* PRG-ROM, and a read-modify-write of PRG-ROM.
StoreProg(v) == Bytes(0, <<169, v, 141, 1, 24, 141, 3, 128, 238, 4, 192>>)

\* LDA #v; STA $2002; STA $4017; STA $7FFF; LDA $2002; LDX $7FFF: stores to
\* and loads from the PPU registers, the APU/IO window and unmapped space.
IoProg(v) ==
    Bytes(0, <<169, v, 141, 2, 32, 141, 23, 64, 141, 255, 127, 173, 2, 32,
               174, 255, 127>>)

\* JMP $FFFF; at 0xFFFF a NOP, whose fetch moves PC past the address space.
TopProg == Bytes(0, <<76, 255, 255>>) @@ Bytes(Off(65535), <<234>>)

\* Bytes the bus programs store.
BusValues == {64, 255}

BusImages ==
    {Image16(StoreProg(v)) : v \in BusValues}
    \cup {Image32(StoreProg(v)) : v \in BusValues}
    \cup {Image16(IoProg(v)) : v \in BusValues}
    \cup {Image32(IoProg(v)) : v \in BusValues}
    \cup {Image16(TopProg)}

\* Addresses the driver writes under SpecBus: the ends of RAM and of its
\* mirrors, of the PPU registers, of the APU/IO window, of unmapped space and
\* of PRG-ROM.
BusAddrs ==
    {0, 2047, 2048, 6145, 8191, 8192, 16383, 16384, 16407, 16408, 32767,
     32768, 49156, 65535}

\* The bus writes: 0x5A everywhere, and a zero over a byte a program stored.
BusWrites == {<<a, 90>> : a \in BusAddrs} \cup {<<6145, 0>>}

\* Operands of the arithmetic and compare instructions: the ends of the byte
\* range, both sides of bit 7 and of bit 6, and nibble boundaries.
AluValues ==
    {0, 1, 2, 15, 16, 63, 64, 65, 80, 127, 128, 129, 144, 176, 191, 192, 208,
     240, 254, 255}

\* The carry the arithmetic programs start from.
Carries == {0, 1}

\* LDA #a; CLC or SEC; ADC #b; BRK.
AdcProg(a, b, cin) ==
    Image16(Bytes(0, <<169, a, IF cin = 1 THEN 56 ELSE 24, 105, b>>) @@ Handler)

\* LDA #a; CLC or SEC; SBC #b; BRK.
SbcProg(a, b, cin) ==
    Image16(Bytes(0, <<169, a, IF cin = 1 THEN 56 ELSE 24, 233, b>>) @@ Handler)

\* The flags the compare programs start from: V and D set (LDA #$7F;
\* ADC #$01; SED) with I as reset left it, or I cleared (CLI) with V and D
\* clear.
FlagSetups == {<<169, 127, 105, 1, 248>>, <<88>>}

\* The flag setup; LDA #r; LDX #(r ^ 0xFF); LDY #(r ^ 0x80); CMP #m; CPX #m;
\* CPY abs, of the byte m that is the operand of the CMP; BRK.
CmpProg(setup, r, m) ==
    Image16(Bytes(0, setup \o <<169, r, 162, BitXor(r, 255), 160, BitXor(r, 128),
                               201, m, 224, m, 204, (Len(setup) + 7) % 256, 128>>)
            @@ Handler)

\* Pointers of an indirect JMP: the last byte of a RAM page seen through a
\* mirror, the middle of a page, the last byte of RAM proper, the last byte
\* of a PRG page and the last byte of the address space.
JmpPointers == {4351, 4224, 2047, 33023, 65535}

\* LDA #$34; STA ptr; LDA #$12; STA ptr & 0xFF00; LDA #$99; STA ptr + 1;
\* JMP (ptr); and, for the pointers into PRG-ROM, 0x34 at 0x80FF, 0x99 at
\* 0x8100 and 0x12 at 0xFF00.
JmpProg(ptr) ==
    LET page == BitAnd(ptr, 65280)
        next == AsU16(ptr + 1)
    IN  Image16(Bytes(0, <<169, 52, 141, ptr % 256, ptr \div 256,
                           169, 18, 141, page % 256, page \div 256,
                           169, 153, 141, next % 256, next \div 256,
                           108, ptr % 256, ptr \div 256>>)
                @@ Bytes(255, <<52, 153>>) @@ Bytes(Off(65280), <<18>>) @@ Handler)

\* Operand bytes and index registers of the indirect modes: the ends of the
\* zero page and values whose sum wraps or lands on 0xFF.
ZpOperands == {0, 128, 254, 255}
IndexValues == {0, 1, 127, 128, 255}

\* LDA #$34; STA $FF; LDA #$80; STA $00; LDA #$FF; STA $01: the pointers
\* 0x8034 at 0xFF/0x00, 0xFF80 at 0x00/0x01 and 0x00FF at 0x01/0x02, with
\* 0x0100 left zero.
ZpSetup == <<169, 52, 133, 255, 169, 128, 133, 0, 169, 255, 133, 1>>

\* The setup; LDX #x; LDA (op,X); with 0x5A at 0x8034.
IndXProg(op, x) ==
    Image16(Bytes(0, ZpSetup \o <<162, x, 161, op>>) @@ Bytes(52, <<90>>) @@ Handler)

\* The setup; LDY #y; LDA (op),Y; with 0x5A at 0x8034.
IndYProg(op, y) ==
    Image16(Bytes(0, ZpSetup \o <<160, y, 177, op>>) @@ Bytes(52, <<90>>) @@ Handler)

\* Opcode bytes outside the table of decode.
UnknownOpcodes == {2, 26, 128, 255}

\* LDA #$81; the opcode byte; $34 $12; NOP.
UnknownProg(opcode) ==
    Image16(Bytes(0, <<169, 129, opcode, 52, 18, 234>>) @@ Handler)

\* LDX #$90; STX $80; LDY $F0,X; LDX $F0,Y; STA $0280; LDA $01F1,Y; ASL A;
\* INC $80: the zero-page, indexed zero-page, absolute, indexed absolute,
\* accumulator and immediate modes, with the zero-page sums wrapping.
ModesProg ==
    Image16(Bytes(0, <<162, 144, 134, 128, 180, 240, 182, 240, 141, 128, 2,
                       185, 241, 1, 10, 230, 128>>) @@ Handler)

\* An address near the top of the address space and the opcode byte there:
\* NOP and LDA # at 0xFFFF, and LDA abs at 0xFFFE.
TopCases == {<<65535, 234>>, <<65535, 169>>, <<65534, 173>>}

\* JMP at; at the address the opcode byte, whose operand bytes, if any, lie
\* past 0xFFFF.
TopTraceProg(at, opcode) ==
    Image16(Bytes(0, <<76, at % 256, at \div 256>>) @@ Bytes(Off(at), <<opcode>>))

\* The programs that are traced and stepped.
TraceImages ==
    {IndXProg(op, x) : op \in ZpOperands, x \in IndexValues}
    \cup {IndYProg(op, y) : op \in ZpOperands, y \in IndexValues}
    \cup {JmpProg(ptr) : ptr \in JmpPointers}
    \cup {UnknownProg(opcode) : opcode \in UnknownOpcodes}
    \cup {CycleProg(x) : x \in CycleIndexes}
    \cup {TopTraceProg(t[1], t[2]) : t \in TopCases}
    \cup {ModesProg}

\* One opcode byte, with $10 $02 after it.
OpcodeProg(opcode) == Image16(Bytes(0, <<opcode, 16, 2>>) @@ Handler)

\* What the interrupt handler at 0x8040 starts with: RTI; NOP, RTI; CLI, NOP;
\* PLP, NOP.
Handlers == {<<64>>, <<234, 64>>, <<88, 234>>, <<40, 234>>}

\* LDX #sp0; TXS; CLI; NOP; BRK; NOP; NOP, with the three vectors as in
\* Handler and the handler h at 0x8040.
NestProg(sp0, h) ==
    Image16(Bytes(0, <<162, sp0, 154, 88, 234, 0, 234, 234>>)
            @@ Bytes(Off(IRQ_VECTOR) - 4, <<32, 128, 48, 128, 64, 128>>)
            @@ Bytes(64, h))

\* The programs that are stepped and interrupted.
NestImages ==
    {NestProg(sp0, h) : sp0 \in StackPointers, h \in Handlers}
    \cup {OpcodeProg(opcode) : opcode \in Byte}

\* The opcode bytes of BPL, BMI, BVC, BVS, BCC, BCS, BNE and BEQ.
BranchOpcodes == {16, 48, 80, 112, 144, 176, 208, 240}

\* The status bytes the branch programs pull: no flag, C, Z, V and N alone,
\* and the four together.
BranchFlags == {0, 1, 2, 64, 128, 195}

\* Operand bytes of a branch: forward, backward and both ends of each range.
BranchOffsets == {0, 2, 127, 128, 254, 255}

\* Addresses of a branch: in the first PRG page and near the top of the
\* address space, where a forward target passes 0xFFFF.
BranchAddrs == {32784, 65520}

\* LDA #p; PHA; PLP; JMP at;  at: the branch with operand o.
BranchProg(p, opcode, o, at) ==
    Image16(Bytes(0, <<169, p, 72, 40, 76, at % 256, at \div 256>>)
            @@ Bytes(Off(at), <<opcode, o>>) @@ Handler)

\* Operand words of the absolute indexed stores: the last byte of the zero
\* page, of RAM and of the address space, a word that an index of 0xFF takes
\* to 0x10000, and a word in a RAM mirror.
AbsOperands == {255, 2047, 65535, 65281, 4096}

\* LDA #$5A; LDX #i; LDY #(i ^ 0xFF); the store with its operand bytes: one
\* of STA zp,X (0x95), STX zp,Y (0x96), STA abs,X (0x9D), STA abs,Y (0x99).
IndexedProg(i, store) ==
    Image16(Bytes(0, <<169, 90, 162, i, 160, BitXor(i, 255)>> \o store) @@ Handler)

\* LDA #v; CLC or SEC; the shift of A: ASL (0x0A), LSR (0x4A), ROL (0x2A) or
\* ROR (0x6A).
AccShiftProg(v, cin, opcode) ==
    Image16(Bytes(0, <<169, v, IF cin = 1 THEN 56 ELSE 24, opcode>>) @@ Handler)

\* LDA #v; STA $10; LDA #(v ^ 0xFF); CLC or SEC; the shift of $10: ASL
\* (0x06), LSR (0x46), ROL (0x26) or ROR (0x66).
ZpShiftProg(v, cin, opcode) ==
    Image16(Bytes(0, <<169, v, 133, 16, 169, BitXor(v, 255),
                       IF cin = 1 THEN 56 ELSE 24, opcode, 16>>) @@ Handler)

\* The status bytes the BIT programs pull: no flag; C, I and D; V; all four.
BitFlags == {0, 13, 64, 77}

\* A and the operand of BIT: both ends of the byte range, each of bits 6 and
\* 7 alone and together, and pairs of nonzero bytes whose AND is zero.
BitValues == {0, 1, 63, 64, 127, 128, 192, 255}

\* LDA #p; PHA; PLP; LDA #m; STA $10; LDA #a; BIT $10.
BitProg(p, a, m) ==
    Image16(Bytes(0, <<169, p, 72, 40, 169, m, 133, 16, 169, a, 36, 16>>) @@ Handler)

\* The status bytes the store programs pull: no flag, and C, I, D and V.
StoreFlags == {0, 77}

\* The byte the store programs load into A, with its complement in X and
\* its bit 7 flipped in Y.
StoreValues == {0, 1, 128, 255}

\* Where the store programs store: RAM, the last byte of its last mirror,
\* the first PPU register, an address no device has, and both ends of
\* PRG-ROM.
StoreTargets == {512, 8191, 8192, 16384, 32768, 65535}

\* LDA #p; PHA; PLP; LDA #v; LDX #(v ^ 0xFF); LDY #(v ^ 0x80); TXS; the store
\* to the target: STA abs (0x8D), STX abs (0x8E) or STY abs (0x8C).
FlagStoreProg(p, v, opcode, target) ==
    Image16(Bytes(0, <<169, p, 72, 40, 169, v, 162, BitXor(v, 255),
                       160, BitXor(v, 128), 154,
                       opcode, target % 256, target \div 256>>) @@ Handler)

\* Operands whose binary and decimal sums and differences differ (0x09,
\* 0x15, 0x50, 0x99), with 0 and 1.
DecimalValues == {0, 1, 9, 21, 80, 153}

\* SED (0xF8) or CLD (0xD8); LDA #a; CLC or SEC; ADC #b (0x69) or SBC #b
\* (0xE9).
DecimalProg(d, a, b, cin, opcode) ==
    Image16(Bytes(0, <<d, 169, a, IF cin = 1 THEN 56 ELSE 24, opcode, b>>) @@ Handler)

\* The programs that are run by step alone.
StepImages ==
    {AdcProg(a, b, cin) : a \in AluValues, b \in AluValues, cin \in Carries}
    \cup {SbcProg(a, b, cin) : a \in AluValues, b \in AluValues, cin \in Carries}
    \cup {CmpProg(f, r, m) : f \in FlagSetups, r \in AluValues, m \in AluValues}
    \cup {JmpProg(ptr) : ptr \in JmpPointers}
    \cup {IndXProg(op, x) : op \in ZpOperands, x \in IndexValues}
    \cup {IndYProg(op, y) : op \in ZpOperands, y \in IndexValues}
    \cup {UnknownProg(opcode) : opcode \in UnknownOpcodes}
    \cup {BranchProg(p, opcode, o, at) : p \in BranchFlags, opcode \in BranchOpcodes,
                                         o \in BranchOffsets, at \in BranchAddrs}
    \cup {OpcodeProg(opcode) : opcode \in Byte}
    \cup {DecimalProg(d, a, b, cin, opcode) :
             d \in {248, 216}, a \in DecimalValues, b \in DecimalValues,
             cin \in Carries, opcode \in {105, 233}}
    \cup {FlagStoreProg(p, v, opcode, target) :
             p \in StoreFlags, v \in StoreValues, opcode \in {141, 142, 140},
             target \in StoreTargets}
    \cup {BitProg(p, a, m) : p \in BitFlags, a \in BitValues, m \in BitValues}
    \cup {AccShiftProg(v, cin, opcode) :
             v \in AluValues, cin \in Carries, opcode \in {10, 74, 42, 106}}
    \cup {ZpShiftProg(v, cin, opcode) :
             v \in AluValues, cin \in Carries, opcode \in {6, 70, 38, 102}}
    \cup {IndexedProg(i, <<opcode, op>>) :
             i \in IndexValues, opcode \in {149, 150}, op \in ZpOperands}
    \cup {IndexedProg(i, <<opcode, op % 256, op \div 256>>) :
             i \in IndexValues, opcode \in {157, 153}, op \in AbsOperands}

\* The files given to Rom::new.  First bytes: NES_TAG and a tag with a wrong
\* last byte.
Tags == {NES_TAG, <<78, 69, 83, 0>>}

\* raw[4] and raw[5]: the numbers of PRG and CHR pages.
PrgPages == {0, 1, 2}
ChrPages == {0, 1}

\* raw[6]: no flag, vertical, trainer, four-screen, four-screen and vertical,
\* trainer and vertical with mapper nibble 1, four-screen with nibble 0xF.
Flags6 == {0, 1, 4, 8, 9, 21, 248}

\* raw[7]: version bits 0, 1, 2 and 3, without and with a mapper nibble.
Flags7 == {0, 16, 240, 4, 8, 12, 244}

\* Lengths up to the size of the header.
ShortLengths == {0, 3, 4, 7, 8, 15, 16}

\* What a file's length is away from the end of its CHR image: bytes
\* missing, none, and bytes after the image.
Excesses == {-8193, -1, 0, 3}

\* The offsets at which the files hold a non-zero byte: around every place
\* where a trainer, a PRG image or a CHR image can start or end.
Marks ==
    UNION {{b - 1, b, b + 1} :
             b \in {HEADER_SIZE + t + p * PRG_ROM_PAGE_SIZE + c * CHR_ROM_PAGE_SIZE :
                      t \in {0, TRAINER_SIZE}, p \in 0..2, c \in 0..1}}

\* The first len bytes of the header, with the marks after it.
RawFile(tag, prg, chr, flags6, flags7, len) ==
    LET all == Bytes(0, tag \o <<prg, chr, flags6, flags7>>)
               @@ [i \in {m \in Marks : m >= HEADER_SIZE} |-> (i % 251) + 1]
    IN  [len |-> len, bytes |-> [i \in {j \in DOMAIN all : j < len} |-> all[i]]]

\* The length the header of a file declares.
Declared(prg, chr, flags6) ==
    HEADER_SIZE + (IF (flags6 \div 4) % 2 = 1 THEN TRAINER_SIZE ELSE 0)
    + prg * PRG_ROM_PAGE_SIZE + chr * CHR_ROM_PAGE_SIZE

\* The declared length and the excess, and no less than the header.
FileLength(prg, chr, flags6, e) ==
    IF Declared(prg, chr, flags6) + e >= HEADER_SIZE
    THEN Declared(prg, chr, flags6) + e
    ELSE HEADER_SIZE

RawInputs ==
    {RawFile(tag, prg, chr, flags6, flags7, len) :
       tag \in Tags, prg \in PrgPages, chr \in ChrPages,
       flags6 \in Flags6, flags7 \in Flags7, len \in ShortLengths}
    \cup
    {RawFile(tag, prg, chr, flags6, flags7, FileLength(prg, chr, flags6, e)) :
       tag \in Tags, prg \in PrgPages, chr \in ChrPages,
       flags6 \in Flags6, flags7 \in Flags7, e \in Excesses}

\* No file, and no result of Rom::new yet.
NoInput == [len |-> 0, bytes |-> Zeroes]
NoResult == [kind |-> "None"]

\* ------------------------------------------------------------ the machine
VARIABLES
    accumulator,      \* CPU.accumulator
    program_counter,  \* CPU.program_counter
    register_x,       \* CPU.register_x
    register_y,       \* CPU.register_y
    stack_pointer,    \* CPU.stack_pointer
    status,           \* CPU.status
    cycles,           \* CPU.cycles
    ram,              \* Bus.ram
    cartridge_rom,    \* Bus.cartridge_rom
    panicked,         \* the process has aborted on an arithmetic overflow
    rom,              \* the PRG image the driver loaded (main.rs: rom.prg_rom)
    calls,            \* the number of calls other than step the driver has made
    hist,             \* the last HistDepth calls, the latest first
    raw,              \* the bytes of the file given to Rom::new (main.rs: rom_data)
    parsed            \* what Rom::new returned for raw

vars == <<accumulator, program_counter, register_x, register_y, stack_pointer,
          status, cycles, ram, cartridge_rom, panicked, rom, calls, hist,
          raw, parsed>>

\* The machine as the operators above take it.
Cpu ==
    [accumulator |-> accumulator, program_counter |-> program_counter,
     register_x |-> register_x, register_y |-> register_y,
     stack_pointer |-> stack_pointer, status |-> status, cycles |-> cycles,
     ram |-> ram, cartridge_rom |-> cartridge_rom,
     overflowed |-> FALSE, stack_log |-> <<>>]

\* The registers, as a call's record keeps them.
Regs(c) ==
    [a |-> c.accumulator, x |-> c.register_x, y |-> c.register_y,
     sp |-> c.stack_pointer, p |-> c.status, pc |-> c.program_counter,
     cycles |-> c.cycles]

\* The address CPU::execute gets from resolve_addr for the instruction at PC.
operand_addr(c) ==
    resolve_addr(fetch_byte(c).c,
                 decode(mem_read(c, c.program_counter)).addressing_mode).v

\* The record of one call: what was called, the instruction a step decoded
\* and its effective address, the registers and the RAM before the call, the
\* call's arguments, the stack addresses it touched and whether it ended in a
\* panic.
Call(name, c, t, arg, data, dead) ==
    [call |-> name,
     opcode |-> IF name = "step" THEN decode(mem_read(c, c.program_counter)).opcode
                ELSE "-",
     addr |-> IF name = "step" THEN operand_addr(c) ELSE 0,
     pre |-> Regs(c), ram |-> c.ram, arg |-> arg, data |-> data,
     stack_log |-> t.stack_log, panicked |-> dead]

\* hist with the call e put first.
Record(e) == SubSeq(<<e>> \o hist, 1, IF Len(hist) < HistDepth THEN Len(hist) + 1 ELSE HistDepth)

\* The machine becomes t.
Commit(t) ==
    /\ accumulator' = t.accumulator
    /\ program_counter' = t.program_counter
    /\ register_x' = t.register_x
    /\ register_y' = t.register_y
    /\ stack_pointer' = t.stack_pointer
    /\ status' = t.status
    /\ cycles' = t.cycles
    /\ ram' = t.ram
    /\ cartridge_rom' = t.cartridge_rom

\* The state after CPU::new() and load(image), for an image of the set.
InitWith(images) ==
    \E image \in images :
        /\ rom = image
        /\ LET c == load(new, image)
           IN  /\ accumulator = c.accumulator
               /\ program_counter = c.program_counter
               /\ register_x = c.register_x
               /\ register_y = c.register_y
               /\ stack_pointer = c.stack_pointer
               /\ status = c.status
               /\ cycles = c.cycles
               /\ ram = c.ram
               /\ cartridge_rom = c.cartridge_rom
        /\ panicked = FALSE
        /\ calls = 0
        /\ hist = <<>>
        /\ raw = NoInput
        /\ parsed = NoResult

\* cpu.step(), run to its end: in every build when nothing overflowed, and in
\* a build without overflow checks (where the arithmetic wraps) otherwise.
Step ==
    /\ ~panicked
    /\ cycles < MaxCycles
    /\ LET t == step(Cpu)
       IN  /\ Commit(t)
           /\ hist' = Record(Call("step", Cpu, t, 0, 0, FALSE))
    /\ UNCHANGED <<panicked, rom, calls, raw, parsed>>

\* cpu.step() in a build with overflow checks, when an addition to the
\* program counter overflows: the process aborts.
StepPanic ==
    /\ ~panicked
    /\ cycles < MaxCycles
    /\ step(Cpu).overflowed
    /\ panicked' = TRUE
    /\ hist' = Record(Call("step", Cpu, Cpu, 0, 0, TRUE))
    /\ UNCHANGED <<accumulator, program_counter, register_x, register_y,
                   stack_pointer, status, cycles, ram, cartridge_rom, rom, calls,
                   raw, parsed>>

\* A call of the driver other than step, leading to t.
Driver(name, t, arg, data) ==
    /\ ~panicked
    /\ calls < MaxCalls
    /\ calls' = calls + 1
    /\ Commit(t)
    /\ hist' = Record(Call(name, Cpu, t, arg, data, FALSE))
    /\ UNCHANGED <<panicked, rom, raw, parsed>>

\* cpu.irq().
Irq == Driver("irq", irq(Cpu), 0, 0)

\* cpu.nmi().
Nmi == Driver("nmi", nmi(Cpu), 0, 0)

\* cpu.reset().
Reset == Driver("reset", reset(Cpu), 0, 0)

\* cpu.set_pc(pc).
SetPc == \E pc \in EntryPoints : Driver("set_pc", set_pc(Cpu, pc), pc, 0)

\* cpu.mem_write(addr, data), for (addr, data) of the set writes.
Write8(writes) ==
    \E w \in writes : Driver("mem_write", mem_write(Cpu, w[1], w[2]), w[1], w[2])

Next == Step \/ StepPanic \/ Irq \/ Nmi \/ Reset \/ SetPc \/ Write8(Writes)

\* The driver under SpecBus: the same calls, with writes all over the
\* address space.
NextBus == Step \/ StepPanic \/ Irq \/ Nmi \/ Reset \/ SetPc \/ Write8(BusWrites)

Init == InitWith(CpuImages)

Spec == Init /\ [][Next]_vars

InitBus == InitWith(BusImages)

SpecBus == InitBus /\ [][NextBus]_vars

\* A driver that only steps, as the loop of main does.
NextStep == Step

InitStep == InitWith(StepImages)

SpecStep == InitStep /\ [][NextStep]_vars

\* The latest call was not a trace.
Untraced == IF Len(hist) = 0 THEN TRUE ELSE hist[1].call # "trace"

\* cpu.trace(), at most once before each step: the line is kept in the
\* call's record.
Trace ==
    /\ ~panicked
    /\ cycles < MaxCycles
    /\ Untraced
    /\ LET t == trace(Cpu)
       IN  /\ Commit(t.c)
           /\ hist' = Record(Call("trace", Cpu, t.c, 0, t.v, FALSE))
    /\ UNCHANGED <<panicked, rom, calls, raw, parsed>>

\* cpu.trace() in a build with overflow checks, when pc + 1 or pc + 2
\* overflows: the process aborts.
TracePanic ==
    /\ ~panicked
    /\ cycles < MaxCycles
    /\ Untraced
    /\ trace(Cpu).c.overflowed
    /\ panicked' = TRUE
    /\ hist' = Record(Call("trace", Cpu, Cpu, 0, 0, TRUE))
    /\ UNCHANGED <<accumulator, program_counter, register_x, register_y,
                   stack_pointer, status, cycles, ram, cartridge_rom, rom, calls,
                   raw, parsed>>

\* The loop of main, with the trace optional.
NextTrace == Trace \/ TracePanic \/ Step \/ StepPanic

InitTrace == InitWith(TraceImages)

SpecTrace == InitTrace /\ [][NextTrace]_vars

\* The state of main before Rom::new: a file of the set has been read.
InitRom ==
    /\ raw \in RawInputs
    /\ parsed = NoResult
    /\ rom = NoInput
    /\ accumulator = new.accumulator
    /\ program_counter = new.program_counter
    /\ register_x = new.register_x
    /\ register_y = new.register_y
    /\ stack_pointer = new.stack_pointer
    /\ status = new.status
    /\ cycles = new.cycles
    /\ ram = new.ram
    /\ cartridge_rom = new.cartridge_rom
    /\ panicked = FALSE
    /\ calls = 0
    /\ hist = <<>>

\* Rom::new(&rom_data).expect(..): the process aborts unless a Rom comes
\* back.
RomNew ==
    /\ parsed = NoResult
    /\ parsed' = Rom_new(raw)
    /\ panicked' = (parsed'.kind # "Ok")
    /\ UNCHANGED <<accumulator, program_counter, register_x, register_y,
                   stack_pointer, status, cycles, ram, cartridge_rom, rom, calls,
                   hist, raw>>

\* CPU::new() and cpu.load(&rom.prg_rom).
LoadRom ==
    /\ parsed.kind = "Ok"
    /\ rom = NoInput
    /\ rom' = parsed.prg_rom
    /\ Commit(load(new, parsed.prg_rom))
    /\ UNCHANGED <<panicked, calls, hist, raw, parsed>>

NextRom == RomNew \/ LoadRom

SpecRom == InitRom /\ [][NextRom]_vars

\* cpu.irq() or cpu.nmi(), leading to t, up to MaxInterrupts times in a run.
Interrupt(name, t) ==
    /\ ~panicked
    /\ calls < MaxInterrupts
    /\ calls' = calls + 1
    /\ Commit(t)
    /\ hist' = Record(Call(name, Cpu, t, 0, 0, FALSE))
    /\ UNCHANGED <<panicked, rom, raw, parsed>>

NestedIrq == Interrupt("irq", irq(Cpu))

NestedNmi == Interrupt("nmi", nmi(Cpu))

\* The loop of a driver that raises interrupts between steps.
NextNest == Step \/ NestedIrq \/ NestedNmi

InitNest == InitWith(NestImages)

SpecNest == InitNest /\ [][NextNest]_vars

\* ------------------------------------------------------------------ claims
\* The latest call was a step that ran the instruction op to its end.
Stepped(n, op) ==
    /\ Len(hist) >= n
    /\ hist[n].call = "step"
    /\ hist[n].opcode = op
    /\ ~hist[n].panicked

\* The latest call was the driver call name.
Called(n, name) == Len(hist) >= n /\ hist[n].call = name

\* The stack slot address of a stack pointer value.
Slot(sp) == 256 + (sp % 256)

\* The byte the bus now returns for addr.
Read8(addr) == mem_read(Cpu, addr)

\* Bit k (a power of two) of the byte v is set.
Bit(v, k) == (v \div k) % 2 = 1

\* C1: bit U (0x20) of P is 1 and bit B (0x10) of P is 0 in every reachable
\* state, in particular after PLP and RTI whatever byte they pop.
C1_StatusBits == Bit(status, 32) /\ ~Bit(status, 16)

\* C1's case: PLP or RTI has just popped a byte with B set and U clear.
C1_Witness ==
    /\ Stepped(1, "PLP") \/ Stepped(1, "RTI")
    /\ LET popped == Read8(hist[1].stack_log[1])
       IN  Bit(popped, 16) /\ ~Bit(popped, 32)

\* The change of SP a completed call makes: pushes count -1, pops +1.
StackDelta(e) ==
    CASE e.call = "step" /\ e.opcode \in {"PHA", "PHP"} -> -1
      [] e.call = "step" /\ e.opcode \in {"PLA", "PLP"} -> 1
      [] e.call = "step" /\ e.opcode = "JSR" -> -2
      [] e.call = "step" /\ e.opcode = "RTS" -> 2
      [] e.call = "step" /\ e.opcode = "BRK" -> -3
      [] e.call = "step" /\ e.opcode = "RTI" -> 3
      [] e.call = "irq" /\ ~Bit(e.pre.p, 4) -> -3
      [] e.call = "nmi" -> -3
      [] OTHER -> 0

\* The stack addresses a call with SP change d touches, in order: a push
\* writes the slot of SP and then decrements, a pop increments and then reads.
StackAccesses(sp, d) ==
    IF d < 0 THEN [k \in 1..(-d) |-> Slot(sp - (k - 1))]
    ELSE [k \in 1..d |-> Slot(sp + k)]

\* C2: push writes 0x0100 | SP and then SP = (SP - 1) mod 256; pop sets
\* SP = (SP + 1) mod 256 and then reads 0x0100 | SP.  After every push and
\* pop (PHA, PHP, PLA, PLP, JSR, RTS, BRK, RTI, irq, nmi) SP is a byte, it has
\* wrapped modulo 256, and every stack access lies in 0x0100..0x01FF.
C2_StackWraps ==
    /\ stack_pointer \in Byte
    /\ (Len(hist) >= 1 /\ ~hist[1].panicked) =>
        LET e == hist[1]
            d == StackDelta(e)
        IN  /\ \A k \in 1..Len(e.stack_log) : e.stack_log[k] \in 256..511
            /\ e.call \in {"step", "irq", "nmi"} /\ e.opcode # "TXS" =>
                /\ e.stack_log = StackAccesses(e.pre.sp, d)
                /\ stack_pointer = (e.pre.sp + d) % 256
            /\ e.call = "step" /\ e.opcode = "PHA" =>
                Read8(Slot(e.pre.sp)) = e.pre.a
            /\ e.call = "step" /\ e.opcode = "PLA" =>
                accumulator = Read8(Slot(e.pre.sp + 1))

\* C2's case: a push at SP = 0x00 left SP = 0xFF and the pop that followed
\* at SP = 0xFF left SP = 0x00.
C2_Witness ==
    /\ Stepped(1, "PLA") /\ hist[1].pre.sp = 255 /\ stack_pointer = 0
    /\ Stepped(2, "PHA") /\ hist[2].pre.sp = 0
    /\ hist[2].stack_log = <<256>> /\ hist[1].stack_log = <<256>>

\* The return address a JSR at address a pushes, and where its RTS returns to.
JsrPushed(a) == (a + 2) % 65536
JsrReturn(a) == (a + 3) % 65536

\* The stack holds the frame of the JSR call e: the high byte of its return
\* address in the slot of e's SP, the low byte in the slot below.
FrameIntact(e) ==
    /\ Read8(Slot(e.pre.sp)) = JsrPushed(e.pre.pc) \div 256
    /\ Read8(Slot(e.pre.sp - 1)) = JsrPushed(e.pre.pc) % 256

\* C3: a JSR at address a, with any target and any SP, pushes the high then
\* the low byte of a+2 and sets PC to the target; an RTS executed later with
\* SP back at its post-JSR value and the two bytes intact sets PC to a+3 and
\* SP to its value before the JSR.
C3_JsrRts ==
    /\ Stepped(1, "JSR") =>
        /\ hist[1].stack_log = <<Slot(hist[1].pre.sp), Slot(hist[1].pre.sp - 1)>>
        /\ FrameIntact(hist[1])
        /\ stack_pointer = (hist[1].pre.sp - 2) % 256
        /\ program_counter = mem_read_u16(Cpu, (hist[1].pre.pc + 1) % 65536)
    /\ \A i \in 2..Len(hist) :
        ( /\ Stepped(1, "RTS")
          /\ Stepped(i, "JSR")
          /\ hist[1].pre.sp = (hist[i].pre.sp - 2) % 256
          /\ FrameIntact(hist[i]) )
        => /\ program_counter = JsrReturn(hist[i].pre.pc)
           /\ stack_pointer = hist[i].pre.sp

\* C3's case: a JSR at SP = 0x00, whose pushes wrap, then a NOP, then the RTS
\* that returns behind the JSR.
C3_Witness ==
    /\ Stepped(1, "RTS") /\ Stepped(2, "NOP") /\ Stepped(3, "JSR")
    /\ hist[3].pre.sp = 0 /\ hist[1].pre.sp = 254
    /\ FrameIntact(hist[3])
    /\ program_counter = hist[3].pre.pc + 3

\* C4: PHP immediately followed by PLP leaves SP unchanged and P equal to
\* its prior value with B forced to 0 and U forced to 1, (P & 0xEF) | 0x20;
\* the byte PHP writes to the stack is P | 0x30.
C4_PhpPlp ==
    /\ Stepped(1, "PHP") =>
        Read8(Slot(hist[1].pre.sp)) = BitOr(hist[1].pre.p, 48)
    /\ (Stepped(1, "PLP") /\ Stepped(2, "PHP")) =>
        /\ stack_pointer = hist[2].pre.sp
        /\ status = BitOr(BitAnd(hist[2].pre.p, 239), 32)
        /\ Read8(Slot(hist[2].pre.sp)) = BitOr(hist[2].pre.p, 48)

\* C4's case: PHP then PLP at SP = 0x00 with N, V, D, I, Z and C all set.
C4_Witness ==
    /\ Stepped(1, "PLP") /\ Stepped(2, "PHP")
    /\ hist[2].pre.sp = 0 /\ hist[2].pre.p = 239
    /\ Read8(256) = 255

\* Instructions that touch neither the stack pointer nor memory.
RegisterOnly ==
    {"LDA", "LDX", "LDY", "TAX", "TAY", "TXA", "TYA", "INX", "INY", "DEX",
     "DEY", "NOP", "CLC", "SEC", "CLV"}

\* C5: PHA with A = v followed by PLA, with A possibly overwritten in between
\* by instructions that do not touch the stack, yields A = v, Z = 1 iff
\* v = 0, N = bit 7 of v, and SP equal to its value before the PHA.
C5_PhaPla ==
    \A i \in 2..Len(hist) :
        ( /\ Stepped(1, "PLA")
          /\ Stepped(i, "PHA")
          /\ \A j \in 2..(i - 1) :
                /\ hist[j].call = "step" /\ ~hist[j].panicked
                /\ hist[j].opcode \in RegisterOnly )
        => /\ accumulator = hist[i].pre.a
           /\ Bit(status, 2) <=> (hist[i].pre.a = 0)
           /\ Bit(status, 128) <=> Bit(hist[i].pre.a, 128)
           /\ stack_pointer = hist[i].pre.sp

\* C5's case: PHA at SP = 0x00 with A = 0x81, A overwritten by LDA #$55,
\* then PLA.
C5_Witness ==
    /\ Stepped(1, "PLA") /\ Stepped(2, "LDA") /\ Stepped(3, "PHA")
    /\ hist[3].pre.sp = 0 /\ hist[3].pre.a = 129 /\ hist[2].pre.a = 129
    /\ accumulator = 129 /\ Bit(status, 128)

\* The machine right after CPU::new() and load(rom).
Loaded == load(new, rom)

\* The array indices that hold, or held before one of the last calls, a
\* nonzero byte of RAM.
RamIndices == DOMAIN ram \cup UNION {DOMAIN hist[n].ram : n \in 1..Len(hist)}

\* RAM addresses probed: both ends of RAM and of its last mirror, the first
\* mirror's start, and the four mirror addresses of every RAM index in use.
RamProbes ==
    {0, 2047, 2048, 6144, 8191} \cup {i + k * 2048 : i \in RamIndices, k \in 0..3}

\* PRG addresses probed: both ends of both halves of 0x8000..0xFFFF, and
\* every address that a nonzero byte of the image or of cartridge_rom can be
\* seen at, under the 16 KB and the 32 KB mapping.
PrgProbes ==
    {32768, 49151, 49152, 65535}
    \cup {32768 + ((i + k * 16384) % 32768) :
            i \in (DOMAIN rom.bytes \cup DOMAIN cartridge_rom), k \in 0..1}

\* Addresses probed in 0x2000..0x7FFF: the ends of the PPU registers, of the
\* APU/IO window and of unmapped space, and every address there that one of
\* the last calls wrote or read.
IoProbes ==
    {8192, 8194, 16383, 16384, 16407, 16408, 20480, 32767}
    \cup {a \in {hist[n].arg : n \in 1..Len(hist)}
              \cup {hist[n].addr : n \in 1..Len(hist)} : a \in 8192..32767}

\* The latest call, run to its end, was a write on the bus: a mem_write of
\* the driver, or a store the CPU executed.
IsWrite ==
    /\ Len(hist) >= 1 /\ ~hist[1].panicked
    /\ \/ hist[1].call = "mem_write"
       \/ hist[1].call = "step" /\ hist[1].opcode \in {"STA", "STX", "STY"}

\* The address and the byte of that write.
WrittenAddr == IF hist[1].call = "mem_write" THEN hist[1].arg ELSE hist[1].addr
WrittenData ==
    CASE hist[1].call = "mem_write" -> hist[1].data
      [] hist[1].opcode = "STA" -> hist[1].pre.a
      [] hist[1].opcode = "STX" -> hist[1].pre.x
      [] hist[1].opcode = "STY" -> hist[1].pre.y

\* C6: for every addr in 0x0000..0x1FFF read8(addr) equals ram[addr mod
\* 0x0800]; a write8(addr, d) with addr < 0x2000 is read back as d at the
\* four mirror addresses of addr, and changes no other RAM offset.
C6_RamMirror ==
    /\ \A addr \in RamProbes : Read8(addr) = At(ram, addr % 2048)
    /\ (IsWrite /\ WrittenAddr < 8192) =>
        /\ \A k \in 0..3 : Read8((WrittenAddr % 2048) + k * 2048) = WrittenData
        /\ \A i \in RamIndices \ {WrittenAddr % 2048} :
                At(ram, i) = At(hist[1].ram, i)

\* C6's case: the driver writes a nonzero byte to the last mirror of RAM,
\* over a byte a store had put there, with other RAM bytes in use.
C6_Witness ==
    /\ IsWrite /\ hist[1].call = "mem_write"
    /\ WrittenAddr = 6145 /\ WrittenData = 90
    /\ At(hist[1].ram, 1) \notin {0, 90}
    /\ Read8(1) = 90 /\ Read8(2049) = 90 /\ Read8(6145) = 90
    /\ \E i \in RamIndices : i # 1 /\ At(ram, i) # 0

\* C7: the PRG-ROM image is immutable after load: after every sequence of
\* step, irq, nmi, reset and write8, read8(addr) for every addr in
\* 0x8000..0xFFFF is the byte it was right after load; writes aimed at
\* 0x8000..0xFFFF are discarded.
C7_PrgImmutable ==
    LET loaded == Loaded
    IN  /\ cartridge_rom = loaded.cartridge_rom
        /\ \A addr \in PrgProbes : Read8(addr) = mem_read(loaded, addr)

\* C7's case: a store to PRG-ROM, then a read-modify-write of PRG-ROM, then a
\* write of the driver to PRG-ROM.
C7_Witness ==
    /\ Called(1, "mem_write") /\ hist[1].arg >= 32768
    /\ Stepped(2, "INC") /\ hist[2].addr >= 32768
    /\ Stepped(3, "STA") /\ hist[3].addr >= 32768 /\ hist[3].pre.a = 255

\* C8 (the claim; the code maps modulo 0x4000 whatever the image's size):
\* for every addr in 0x8000..0xFFFF, read8(addr) is byte (addr - 0x8000) mod
\* prg_size of the loaded image, prg_size being the image's size.
C8_PrgMapping ==
    rom.len \in {16384, 32768} =>
        \A addr \in PrgProbes : Read8(addr) = At(rom.bytes, (addr - 32768) % rom.len)

\* C9: with one 16 KB PRG bank loaded, read8(0x8000 + k) = read8(0xC000 + k)
\* for all k in 0..0x4000.
C9_Nrom128Mirror ==
    rom.len = 16384 =>
        \A addr \in PrgProbes :
            Read8(32768 + (addr % 16384)) = Read8(49152 + (addr % 16384))

\* C9's case: a 16 KB image whose first byte, an opcode, is read at 0x8000
\* and at 0xC000, after the CPU has run and the driver has written.
C9_Witness ==
    /\ rom.len = 16384 /\ Read8(32768) = 169 /\ Read8(49152) = 169
    /\ Called(1, "mem_write") /\ Stepped(2, "INC")

\* C10: for every addr in 0x2000..0x7FFF read8(addr) returns 0 whatever was
\* written before, and a write8 there changes no RAM byte, no PRG byte and no
\* later read.
C10_IoInert ==
    /\ \A addr \in IoProbes : Read8(addr) = 0
    /\ (IsWrite /\ WrittenAddr \in 8192..32767) =>
        /\ ram = hist[1].ram
        /\ cartridge_rom = Loaded.cartridge_rom
        /\ LET before == [Cpu EXCEPT !.ram = hist[1].ram]
           IN  \A addr \in RamProbes \cup PrgProbes \cup IoProbes :
                    Read8(addr) = mem_read(before, addr)

\* C10's case: the CPU has stored 0xFF to 0x2002 and 0x4017, the driver has
\* written to 0x7FFF, and all three read 0.
C10_Witness ==
    /\ Called(1, "mem_write") /\ hist[1].arg = 32767 /\ hist[1].data = 90
    /\ Stepped(2, "STA") /\ hist[2].addr = 16407 /\ hist[2].pre.a = 255
    /\ Stepped(3, "STA") /\ hist[3].addr = 8194
    /\ Read8(8194) = 0 /\ Read8(16407) = 0 /\ Read8(32767) = 0

\* The machine as it was before the call hist[n]: PRG-ROM never changes, so
\* it is the RAM of then under the cartridge of now.
Before(n) == [Cpu EXCEPT !.ram = hist[n].ram]

\* The operand byte the instruction of the step hist[n] read.
Operand(n) == mem_read(Before(n), hist[n].addr)

\* A flag of a status byte as a number.
FlagOf(p, flag) == IF Bit(p, flag) THEN 1 ELSE 0

\* C11: ADC with A = a, operand b and C = cin leaves 256*C + A = a + b + cin,
\* V = 1 iff a and b have the same bit 7 and the result's bit 7 differs from
\* it, Z = 1 iff A = 0, and N = bit 7 of A.
C11_Adc ==
    Stepped(1, "ADC") =>
        LET a == hist[1].pre.a
            b == Operand(1)
            cin == FlagOf(hist[1].pre.p, 1)
        IN  /\ 256 * FlagOf(status, 1) + accumulator = a + b + cin
            /\ Bit(status, 64) <=>
                    /\ Bit(a, 128) = Bit(b, 128)
                    /\ Bit(accumulator, 128) # Bit(a, 128)
            /\ Bit(status, 2) <=> (accumulator = 0)
            /\ Bit(status, 128) <=> Bit(accumulator, 128)

\* C11's case: 0x80 + 0x80 + 1 with the carry set: A = 0x01, carry out, and
\* an overflow from two negative operands to a positive result.
C11_Witness ==
    /\ Stepped(1, "ADC")
    /\ hist[1].pre.a = 128 /\ Operand(1) = 128 /\ Bit(hist[1].pre.p, 1)
    /\ accumulator = 1 /\ Bit(status, 1) /\ Bit(status, 64)
    /\ ~Bit(status, 2) /\ ~Bit(status, 128)

\* C12: SBC with A = a, operand b and carry C yields A = (a - b - (1 - C))
\* mod 256, C = 1 iff a - b - (1 - C) >= 0, V = 1 iff bit 7 of
\* ((sub ^ a) & (sub ^ ~b)) is set, and Z, N from the result; these outputs
\* are those of ADC applied to a and b XOR 0xFF with the same carry-in.
C12_Sbc ==
    Stepped(1, "SBC") =>
        LET a == hist[1].pre.a
            b == Operand(1)
            sub == a - b - (1 - FlagOf(hist[1].pre.p, 1))
            sub7 == Bit(sub % 256, 128)
            added == adc([Before(1) EXCEPT !.status = hist[1].pre.p],
                         BitXor(b, 255), a)
        IN  /\ accumulator = sub % 256
            /\ Bit(status, 1) <=> (sub >= 0)
            /\ Bit(status, 64) <=> (sub7 # Bit(a, 128) /\ sub7 # ~Bit(b, 128))
            /\ Bit(status, 2) <=> (accumulator = 0)
            /\ Bit(status, 128) <=> Bit(accumulator, 128)
            /\ accumulator = added.v
            /\ status = added.c.status

\* C12's case: 0x80 - 0x01 with the carry set (no borrow in): A = 0x7F, no
\* borrow out, and an overflow from a negative minuend to a positive result.
C12_Witness ==
    /\ Stepped(1, "SBC")
    /\ hist[1].pre.a = 128 /\ Operand(1) = 1 /\ Bit(hist[1].pre.p, 1)
    /\ accumulator = 127 /\ Bit(status, 1) /\ Bit(status, 64)
    /\ ~Bit(status, 2) /\ ~Bit(status, 128)

\* The register a compare instruction compares, as it was before the step e.
Compared(e) ==
    CASE e.opcode = "CMP" -> e.pre.a
      [] e.opcode = "CPX" -> e.pre.x
      [] e.opcode = "CPY" -> e.pre.y

\* C13: CMP, CPX and CPY of a register r with an operand m set C = 1 iff
\* r >= m, Z = 1 iff r = m, N = bit 7 of (r - m) mod 256, and leave A, X, Y,
\* SP, memory and the flags V, I, D unchanged.
C13_Compare ==
    (Stepped(1, "CMP") \/ Stepped(1, "CPX") \/ Stepped(1, "CPY")) =>
        LET r == Compared(hist[1])
            m == Operand(1)
        IN  /\ Bit(status, 1) <=> (r >= m)
            /\ Bit(status, 2) <=> (r = m)
            /\ Bit(status, 128) <=> Bit((r - m) % 256, 128)
            /\ accumulator = hist[1].pre.a
            /\ register_x = hist[1].pre.x
            /\ register_y = hist[1].pre.y
            /\ stack_pointer = hist[1].pre.sp
            /\ ram = hist[1].ram
            /\ cartridge_rom = Loaded.cartridge_rom
            /\ \A flag \in {64, 4, 8} : Bit(status, flag) <=> Bit(hist[1].pre.p, flag)

\* C13's case: with V, D and I set, CMP of equal bytes, then CPX, then a
\* CPY in absolute mode of a register below its operand.
C13_Witness ==
    /\ Stepped(1, "CPY") /\ Stepped(2, "CPX") /\ Stepped(3, "CMP")
    /\ hist[3].pre.a = Operand(3) /\ hist[3].pre.a = 192
    /\ hist[1].pre.y = 64 /\ Operand(1) = 192
    /\ Bit(status, 64) /\ Bit(status, 8) /\ Bit(status, 4)
    /\ ~Bit(status, 1) /\ ~Bit(status, 2) /\ Bit(status, 128)

\* The step hist[n] ran the instruction whose opcode byte is byte.
Fetched(n, byte) ==
    /\ Len(hist) >= n /\ hist[n].call = "step" /\ ~hist[n].panicked
    /\ mem_read(Before(n), hist[n].pre.pc) = byte

\* The 16-bit operand of the instruction of the step hist[n].
OperandWord(n) == mem_read_u16(Before(n), (hist[n].pre.pc + 1) % 65536)

\* C14: JMP (ptr) takes the low byte of the new PC from ptr and the high
\* byte from ptr & 0xFF00 when the low byte of ptr is 0xFF, and from ptr + 1
\* for every other ptr.
C14_IndirectJmp ==
    Fetched(1, 108) =>
        LET ptr == OperandWord(1)
            lo == mem_read(Before(1), ptr)
            hi == IF ptr % 256 = 255
                  THEN mem_read(Before(1), ptr - 255)
                  ELSE mem_read(Before(1), ptr + 1)
        IN  program_counter = 256 * hi + lo

\* C14's case: with [0x10FF] = 0x34, [0x1000] = 0x12 and [0x1100] = 0x99,
\* the instruction 6C FF 10 has set PC to 0x1234.
C14_Witness ==
    /\ Fetched(1, 108) /\ OperandWord(1) = 4351
    /\ Read8(4351) = 52 /\ Read8(4096) = 18 /\ Read8(4352) = 153
    /\ program_counter = 4660

\* The addressing mode of the instruction of the step hist[n], and its
\* one-byte operand.
ModeOf(n) == decode(mem_read(Before(n), hist[n].pre.pc)).addressing_mode
OperandByte(n) == mem_read(Before(n), (hist[n].pre.pc + 1) % 65536)

\* The word whose low byte is at the zero-page address p and whose high byte
\* is at (p + 1) mod 256, before the step hist[n].
ZpWord(n, p) ==
    256 * mem_read(Before(n), (p + 1) % 256) + mem_read(Before(n), p)

\* C15: the effective address of IndirectX is the word at the zero-page
\* address p = (operand + X) mod 256, high byte at (p + 1) mod 256; that of
\* IndirectY is the word at operand, high byte at (operand + 1) mod 256, plus
\* Y modulo 65536.  Both pointer bytes come from 0x0000..0x00FF; a load in
\* these modes reads the byte at that address.
C15_ZeroPagePointers ==
    (Len(hist) >= 1 /\ hist[1].call = "step" /\ ~hist[1].panicked) =>
        LET px == (OperandByte(1) + hist[1].pre.x) % 256
            ax == ZpWord(1, px)
            ay == (ZpWord(1, OperandByte(1)) + hist[1].pre.y) % 65536
        IN  /\ ModeOf(1) = "IndirectX" =>
                /\ hist[1].addr = ax
                /\ hist[1].opcode = "LDA" => accumulator = mem_read(Before(1), ax)
            /\ ModeOf(1) = "IndirectY" =>
                /\ hist[1].addr = ay
                /\ hist[1].opcode = "LDA" => accumulator = mem_read(Before(1), ay)

\* C15's case: LDA ($80,X) with X = 0x7F: the pointer's low byte is at 0xFF
\* and its high byte at 0x00, not at 0x0100, and the load reads 0x8034.
C15_Witness ==
    /\ Stepped(1, "LDA") /\ ModeOf(1) = "IndirectX"
    /\ OperandByte(1) = 128 /\ hist[1].pre.x = 127
    /\ Read8(255) = 52 /\ Read8(0) = 128 /\ Read8(256) = 0
    /\ hist[1].addr = 32820 /\ accumulator = 90

\* C16 (the claim; the code sets PC to 0x8000 whatever the image holds):
\* reset sets PC to the little-endian word stored at the reset vector
\* 0xFFFC/0xFFFD of the loaded image.
C16_ResetVector ==
    Called(1, "reset") => program_counter = mem_read_u16(Cpu, 65532)

\* C17 (the claim; the code loads PC from the IRQ vector): nmi, whatever I
\* is, pushes PC high, PC low and then P | 0x20 of the old PC and P, sets I,
\* and sets PC to the word at the NMI vector 0xFFFA/0xFFFB.
C17_NmiVector ==
    Called(1, "nmi") =>
        LET e == hist[1]
        IN  /\ e.stack_log = <<Slot(e.pre.sp), Slot(e.pre.sp - 1), Slot(e.pre.sp - 2)>>
            /\ Read8(Slot(e.pre.sp)) = e.pre.pc \div 256
            /\ Read8(Slot(e.pre.sp - 1)) = e.pre.pc % 256
            /\ Read8(Slot(e.pre.sp - 2)) = BitOr(e.pre.p, 32)
            /\ Bit(status, 4)
            /\ program_counter = mem_read_u16(Cpu, 65530)

\* The three stack slots an interrupt entered at stack pointer sp writes, in
\* the order it writes them.
Frame(sp) == <<Slot(sp), Slot(sp - 1), Slot(sp - 2)>>

\* C18: irq with I set leaves the registers, PC, SP, P, the cycle counter and
\* memory unchanged; irq with I clear writes the old PC high byte, the old PC
\* low byte and the old P | 0x20 (B clear) at three successive stack slots,
\* decreases SP by 3 modulo 256, sets I, and sets PC to the word at
\* 0xFFFE/0xFFFF.
C18_IrqGated ==
    Called(1, "irq") =>
        LET e == hist[1]
        IN  IF Bit(e.pre.p, 4)
            THEN /\ Regs(Cpu) = e.pre
                 /\ ram = e.ram
                 /\ cartridge_rom = Loaded.cartridge_rom
                 /\ e.stack_log = <<>>
            ELSE /\ e.stack_log = Frame(e.pre.sp)
                 /\ Read8(Slot(e.pre.sp)) = e.pre.pc \div 256
                 /\ Read8(Slot(e.pre.sp - 1)) = e.pre.pc % 256
                 /\ Read8(Slot(e.pre.sp - 2)) = BitOr(e.pre.p, 32)
                 /\ ~Bit(Read8(Slot(e.pre.sp - 2)), 16)
                 /\ stack_pointer = (e.pre.sp - 3) % 256
                 /\ status = BitOr(e.pre.p, 4)
                 /\ program_counter = mem_read_u16(Cpu, 65534)

\* C18's case: an irq taken with I clear at SP = 0x01, whose third push
\* wraps to 0x01FF, entering the handler at 0x8040.
C18_Witness ==
    /\ Called(1, "irq") /\ ~Bit(hist[1].pre.p, 4) /\ hist[1].pre.sp = 1
    /\ hist[1].stack_log = <<257, 256, 511>>
    /\ stack_pointer = 254 /\ Bit(status, 4) /\ program_counter = 32832

\* C19: BRK at address a pushes the high then the low byte of a + 2, then
\* P | 0x30 of the P before I is set, sets I in P (whose B stays 0), loads PC
\* from the IRQ vector 0xFFFE/0xFFFF, and decreases SP by 3 modulo 256.
C19_Brk ==
    Stepped(1, "BRK") =>
        LET e == hist[1]
            ret == (e.pre.pc + 2) % 65536
        IN  /\ e.stack_log = Frame(e.pre.sp)
            /\ Read8(Slot(e.pre.sp)) = ret \div 256
            /\ Read8(Slot(e.pre.sp - 1)) = ret % 256
            /\ Read8(Slot(e.pre.sp - 2)) = BitOr(e.pre.p, 48)
            /\ status = BitOr(e.pre.p, 4)
            /\ ~Bit(status, 16)
            /\ program_counter = mem_read_u16(Cpu, 65534)
            /\ stack_pointer = (e.pre.sp - 3) % 256

\* C19's case: a BRK executed with I clear at SP = 0x01: the pushed status
\* has B and U set and I clear, I is set afterwards, and PC is 0x8040.
C19_Witness ==
    /\ Stepped(1, "BRK") /\ ~Bit(hist[1].pre.p, 4) /\ hist[1].pre.sp = 1
    /\ hist[1].stack_log = <<257, 256, 511>>
    /\ Bit(Read8(511), 16) /\ Bit(Read8(511), 32) /\ ~Bit(Read8(511), 4)
    /\ Bit(status, 4) /\ ~Bit(status, 16)
    /\ program_counter = 32832 /\ stack_pointer = 254

\* C20 (the claim; the code decodes an unknown opcode byte with the Indirect
\* mode, whose operand word execute fetches): a step of an opcode byte decoded
\* as Unknown leaves A, X, Y, SP, P, memory and the cycle counter unchanged
\* and advances PC by 1, as NOP does.
C20_UnknownIsNop ==
    Stepped(1, "Unknown") =>
        /\ Regs(Cpu) = [hist[1].pre EXCEPT !.pc = (@ + 1) % 65536]
        /\ ram = hist[1].ram
        /\ cartridge_rom = Loaded.cartridge_rom

\* C21 (the claim; the code adds to the program counter with +=, which
\* aborts on overflow in a build with overflow checks): no step ends in an
\* arithmetic overflow panic, whatever the program counter.
C21_ArithmeticWraps ==
    /\ ~panicked
    /\ \A n \in 1..Len(hist) : ~hist[n].panicked

\* The instruction the step hist[n] decoded.
Decoded(n) == decode(mem_read(Before(n), hist[n].pre.pc))

\* The branch instructions, and the condition of each on the status byte p.
Branches == {"BCC", "BCS", "BEQ", "BNE", "BMI", "BPL", "BVS", "BVC"}
Condition(op, p) ==
    CASE op = "BCC" -> ~Bit(p, 1)
      [] op = "BCS" -> Bit(p, 1)
      [] op = "BEQ" -> Bit(p, 2)
      [] op = "BNE" -> ~Bit(p, 2)
      [] op = "BMI" -> Bit(p, 128)
      [] op = "BPL" -> ~Bit(p, 128)
      [] op = "BVS" -> Bit(p, 64)
      [] op = "BVC" -> ~Bit(p, 64)

\* The step hist[n] was a branch whose condition held.
Taken(n) ==
    /\ hist[n].opcode \in Branches
    /\ Condition(hist[n].opcode, hist[n].pre.p)

\* C22: the cycle counter never decreases across step, irq, nmi, reset,
\* set_pc and mem_write, and a step adds exactly the cycles that decode gives
\* for the opcode byte at PC, whether or not a branch is taken or an indexed
\* access crosses a page.
C22_Cycles ==
    \A n \in 1..Len(hist) :
        LET after == IF n = 1 THEN cycles ELSE hist[n - 1].pre.cycles
        IN  /\ after >= hist[n].pre.cycles
            /\ hist[n].call = "step" /\ ~hist[n].panicked =>
                   after = hist[n].pre.cycles + Decoded(n).cycles

\* A branch was taken, two steps after an LDA $80FF,X that crossed a page,
\* and each was charged the cycles of the table: 2 and 4.
C22_Witness ==
    /\ Stepped(1, "BCS") /\ Taken(1)
    /\ program_counter = hist[1].pre.pc + 4
    /\ cycles = hist[1].pre.cycles + 2
    /\ Stepped(3, "LDA")
    /\ hist[3].addr = 33024
    /\ hist[2].pre.cycles = hist[3].pre.cycles + 4

\* C25: from any prior state, reset sets SP = 0xFD, P = 0x24 and
\* A = X = Y = 0 and changes no memory byte.
C25_Reset ==
    Called(1, "reset") =>
        /\ stack_pointer = 253
        /\ status = 36
        /\ accumulator = 0 /\ register_x = 0 /\ register_y = 0
        /\ ram = hist[1].ram
        /\ cartridge_rom = Loaded.cartridge_rom

\* reset was called with every register and P away from its reset value and
\* with a byte in RAM.
C25_Witness ==
    /\ Called(1, "reset")
    /\ hist[1].pre.a # 0 /\ hist[1].pre.x # 0
    /\ hist[1].pre.sp # 253 /\ hist[1].pre.p # 36
    /\ hist[1].pre.cycles > 0
    /\ hist[1].ram # Zeroes
    /\ stack_pointer = 253 /\ status = 36 /\ register_x = 0

\* The machine before the call hist[n].
Machine(n) ==
    [Before(n) EXCEPT !.accumulator = hist[n].pre.a,
                      !.register_x = hist[n].pre.x,
                      !.register_y = hist[n].pre.y,
                      !.stack_pointer = hist[n].pre.sp,
                      !.status = hist[n].pre.p,
                      !.program_counter = hist[n].pre.pc,
                      !.cycles = hist[n].pre.cycles]

\* The call hist[n] was a trace that returned its line.
Traced(n) == Called(n, "trace") /\ ~hist[n].panicked

\* C23: trace leaves A, X, Y, SP, P, PC, the cycle counter and every memory
\* byte unchanged, and the state after 'trace; step' is the state step alone
\* reaches from the state before the trace.
C23_TraceIsPure ==
    /\ Traced(1) =>
          /\ Regs(Cpu) = hist[1].pre
          /\ ram = hist[1].ram
          /\ cartridge_rom = Loaded.cartridge_rom
    /\ Len(hist) >= 2 /\ hist[1].call = "step" /\ ~hist[1].panicked /\ Traced(2) =>
          LET alone == step(Machine(2))
          IN  /\ Regs(Cpu) = Regs(alone)
              /\ ram = alone.ram
              /\ cartridge_rom = alone.cartridge_rom

\* A store was traced and then stepped, and the step changed RAM, A stayed
\* and PC moved: the trace before it had left all three alone.
C23_Witness ==
    /\ Stepped(1, "STX") /\ Traced(2)
    /\ ram # hist[2].ram
    /\ program_counter = hist[2].pre.pc + 2
    /\ hist[2].data.pc = Hex(hist[2].pre.pc, 4)
    /\ hist[2].data.bytes = <<Hex(134, 2), Hex(128, 2)>>

\* The modes with a memory operand or a target.
MemoryModes ==
    {"ZeroPage", "ZeroPageX", "ZeroPageY", "Absolute", "AbsoluteX", "AbsoluteY",
     "Indirect", "IndirectX", "IndirectY", "Relative"}

\* The effective address in a line of trace: which of the formatted
\* arguments it is depends on the mode.
Displayed(line, mode) ==
    line.disasm.args[CASE mode \in {"ZeroPage", "Absolute", "Relative"} -> 1
                       [] mode \in {"ZeroPageX", "ZeroPageY", "AbsoluteX",
                                    "AbsoluteY", "Indirect"} -> 2
                       [] OTHER -> 3]

\* C24 (the claim; the code's disassemble reads the pointer of IndirectX and
\* IndirectY with mem_read_u16, resolve_addr with mem_read_u16_zp): when a
\* step follows a trace and the instruction's mode has a memory operand or a
\* target, the effective address in the line of the trace is the one
\* resolve_addr computed in the step.
C24_TraceAddress ==
    Len(hist) >= 2 /\ hist[1].call = "step" /\ ~hist[1].panicked /\ Traced(2)
    /\ Decoded(1).addressing_mode \in MemoryModes =>
        LET shown == Displayed(hist[2].data, Decoded(1).addressing_mode)
        IN  shown = Hex(hist[1].addr, Len(shown))

\* Byte k of the file, and whether Rom::new has returned.
Header(k) == At(raw.bytes, k)
Returned == parsed.kind # "None"

\* The file starts with 4E 45 53 1A.
TagOk == raw.len >= 4 /\ <<Header(0), Header(1), Header(2), Header(3)>> = <<78, 69, 83, 26>>

\* The file has a byte 7 and its bits 2-3 are zero.
VersionOne == raw.len >= 8 /\ ~Bit(Header(7), 4) /\ ~Bit(Header(7), 8)

\* Where the header puts the PRG image, and the length it declares.
PrgOffset == 16 + (IF Bit(Header(6), 4) THEN 512 ELSE 0)
Needed == PrgOffset + Header(4) * 16384 + Header(5) * 8192

\* A well-formed iNES v1 file.
WellFormed == TagOk /\ VersionOne /\ raw.len >= Needed

\* C26 (the claim; the code indexes and slices raw without a length check):
\* for a file with the tag and a v1 header that is shorter than its header
\* declares, or shorter than the 16-byte header, Rom::new returns an error
\* value and does not abort.
C26_Truncated ==
    LET short == raw.len < (IF raw.len < 8 THEN 16 ELSE Needed)
    IN  Returned /\ TagOk /\ (raw.len >= 8 => VersionOne) /\ short =>
            parsed.kind = "Err"

\* C27: a file of at least four bytes that does not start with the tag gives
\* the invalid-header error, whatever bits 2-3 of byte 7 are; a file with the
\* tag and non-zero bits 2-3 of byte 7 gives the unsupported-version error;
\* neither gives a Rom.
C27_ValidationOrder ==
    Returned =>
        /\ raw.len >= 4 /\ ~TagOk =>
              parsed.kind = "Err" /\ parsed.error = InvalidHeader
        /\ TagOk /\ raw.len >= 8 /\ ~VersionOne =>
              parsed.kind = "Err" /\ parsed.error = UnsupportedVersion

\* A file without the tag and with version bits 3 got the invalid-header
\* error.
C27_Witness ==
    /\ Returned
    /\ raw.len >= 8 /\ ~TagOk
    /\ Bit(Header(7), 4) /\ Bit(Header(7), 8)
    /\ parsed.kind = "Err" /\ parsed.error = InvalidHeader

\* The image img holds the size bytes of the file from offset off on.
Extracted(img, off, size) ==
    /\ img.len = size
    /\ \A i \in DOMAIN img.bytes
                \cup {j - off : j \in {k \in DOMAIN raw.bytes : off <= k /\ k < off + size}} :
           /\ i \in 0..(size - 1)
           /\ At(img.bytes, i) = At(raw.bytes, off + i)

\* C28: for a well-formed file, prg_rom is the byte4 * 16384 bytes from offset
\* 16, or 16 + 512 with a trainer, and chr_rom the byte5 * 8192 bytes after
\* them; what follows is ignored.
C28_Extraction ==
    Returned /\ WellFormed =>
        /\ parsed.kind = "Ok"
        /\ Extracted(parsed.prg_rom, PrgOffset, Header(4) * 16384)
        /\ Extracted(parsed.chr_rom, PrgOffset + Header(4) * 16384, Header(5) * 8192)

\* A file with a trainer, one PRG page, one CHR page and three bytes after
\* them: prg_rom starts with the byte at 528, not the one at 16, and chr_rom
\* ends with the byte at 25103.
C28_Witness ==
    /\ Returned /\ WellFormed
    /\ Bit(Header(6), 4) /\ Header(4) = 1 /\ Header(5) = 1
    /\ raw.len = Needed + 3
    /\ At(raw.bytes, Needed) # 0
    /\ parsed.kind = "Ok"
    /\ At(parsed.prg_rom.bytes, 0) = At(raw.bytes, 528)
    /\ At(raw.bytes, 528) # At(raw.bytes, 16)
    /\ At(parsed.chr_rom.bytes, 8191) = At(raw.bytes, 25103)
    /\ At(raw.bytes, 25103) # 0

\* C29: a Rom that Rom::new returns has mirroring FourScreen if bit 3 of byte
\* 6 is set, else Vertical if bit 0 is set, else Horizontal, and mapper
\* (byte7 & 0xF0) | (byte6 >> 4); every well-formed file gives a Rom.
C29_HeaderFlags ==
    /\ Returned /\ WellFormed => parsed.kind = "Ok"
    /\ parsed.kind = "Ok" =>
          /\ parsed.mirroring = IF Bit(Header(6), 8) THEN "FourScreen"
                                ELSE IF Bit(Header(6), 1) THEN "Vertical"
                                ELSE "Horizontal"
          /\ parsed.mapper = (Header(7) \div 16) * 16 + Header(6) \div 16

\* A file with bits 3 and 0 of byte 6 set and the high nibble 0xF in byte 7
\* gave FourScreen and mapper 0xF0.
C29_Witness ==
    /\ parsed.kind = "Ok"
    /\ Header(6) = 9 /\ Header(7) = 240
    /\ parsed.mirroring = "FourScreen"
    /\ parsed.mapper = 240

\* PC, SP and P of the machine are those the call e started from, with PC
\* moved on by n.
Resumed(e, n) ==
    /\ program_counter = (e.pre.pc + n) % 65536
    /\ stack_pointer = e.pre.sp
    /\ status = e.pre.p

\* C31: an RTI executed right after an accepted irq or an nmi restores PC, SP
\* and P to their values before the interrupt; an RTI executed right after a
\* BRK at address a leaves PC = a + 2, and SP and P as before the BRK.
C31_InterruptRti ==
    Stepped(1, "RTI") /\ Len(hist) >= 2 =>
        LET e == hist[2]
        IN  /\ e.call = "irq" /\ ~Bit(e.pre.p, 4) => Resumed(e, 0)
            /\ e.call = "nmi" => Resumed(e, 0)
            /\ e.call = "step" /\ e.opcode = "BRK" /\ ~e.panicked => Resumed(e, 2)

\* A BRK ran with I clear and SP = 1, so that its pushes wrapped, and set I;
\* the RTI after it gave back SP and P and left PC two past the BRK.
C31_Witness ==
    /\ Stepped(1, "RTI") /\ Stepped(2, "BRK")
    /\ ~Bit(hist[2].pre.p, 4)
    /\ hist[2].pre.sp = 1
    /\ hist[1].pre.sp = 254
    /\ Bit(hist[1].pre.p, 4)
    /\ Resumed(hist[2], 2)

\* The instructions that may clear I.
MaskClearing == {"CLI", "PLP", "RTI"}

\* The call e was an interrupt entry: an nmi, an irq with I clear or a BRK.
Entered(e) ==
    \/ e.call = "nmi"
    \/ e.call = "irq" /\ ~Bit(e.pre.p, 4)
    \/ e.call = "step" /\ e.opcode = "BRK"

\* C32: an accepted irq, an nmi and a BRK leave I set; with I set, no call
\* other than a step of CLI, PLP or RTI clears it, and an irq changes
\* nothing at all.
C32_NoNesting ==
    Len(hist) >= 1 /\ ~hist[1].panicked =>
        LET e == hist[1]
        IN  /\ Entered(e) => Bit(status, 4)
            /\ Bit(e.pre.p, 4) /\ ~(e.call = "step" /\ e.opcode \in MaskClearing) =>
                  Bit(status, 4)
            /\ Bit(e.pre.p, 4) /\ e.call = "irq" =>
                  /\ Regs(Cpu) = e.pre
                  /\ ram = e.ram
                  /\ cartridge_rom = Loaded.cartridge_rom

\* An nmi came with I clear, the handler's NOP ran, and the irq after it
\* changed nothing.
C32_Witness ==
    /\ Called(1, "irq") /\ Stepped(2, "NOP") /\ Called(3, "nmi")
    /\ ~Bit(hist[3].pre.p, 4)
    /\ Bit(hist[1].pre.p, 4)
    /\ Regs(Cpu) = hist[1].pre
    /\ program_counter = 32833

\* The latest call was a step that ran to its end.
Ran == Len(hist) >= 1 /\ hist[1].call = "step" /\ ~hist[1].panicked

\* C33: a branch at address a with operand byte o sets PC to
\* (a + 2 + sign_extend(o)) mod 65536 if its condition holds and to a + 2
\* otherwise, and leaves A, X, Y, SP, P and memory unchanged.
C33_Branches ==
    Ran /\ hist[1].opcode \in Branches =>
        LET e == hist[1]
            a == e.pre.pc
            o == OperandByte(1)
            offset == IF o >= 128 THEN o - 256 ELSE o
        IN  /\ program_counter = IF Condition(e.opcode, e.pre.p)
                                 THEN (a + 2 + offset) % 65536
                                 ELSE (a + 2) % 65536
            /\ Regs(Cpu) = [e.pre EXCEPT !.pc = program_counter, !.cycles = cycles]
            /\ ram = e.ram
            /\ cartridge_rom = Loaded.cartridge_rom

\* A BVS at 0xFFF0 with operand 0x7F was taken with V set and N, Z, C
\* clear, to 0x0071.
C33_Witness ==
    /\ Ran /\ hist[1].opcode = "BVS"
    /\ hist[1].pre.pc = 65520
    /\ OperandByte(1) = 127
    /\ hist[1].pre.p = 96
    /\ program_counter = 113

\* The official instructions that transfer control whatever the flags.
Transfers == {"JMP", "JSR", "RTS", "RTI", "BRK"}

\* The number of operand bytes of an addressing mode.
OperandBytes(mode) ==
    CASE mode \in {"Implied", "Accumulator"} -> 0
      [] mode \in {"Immediate", "ZeroPage", "ZeroPageX", "ZeroPageY", "Relative",
                   "IndirectX", "IndirectY"} -> 1
      [] mode \in {"Absolute", "AbsoluteX", "AbsoluteY", "Indirect"} -> 2

\* C34: a step of an official instruction that is not JMP, JSR, RTS, RTI,
\* BRK or a taken branch advances PC by 1 plus the number of operand bytes
\* of its mode; the operand of an Immediate instruction is the byte after
\* the opcode.
C34_PcAdvance ==
    Ran /\ hist[1].opcode \notin Transfers \cup {"Unknown"} /\ ~Taken(1) =>
        LET a == hist[1].pre.pc
        IN  /\ program_counter = (a + 1 + OperandBytes(ModeOf(1))) % 65536
            /\ ModeOf(1) = "Immediate" =>
                  /\ hist[1].addr = (a + 1) % 65536
                  /\ hist[1].opcode = "LDA" => accumulator = OperandByte(1)

\* An LDA abs at 0x8000 moved PC to 0x8003.
C34_Witness ==
    /\ Ran /\ hist[1].opcode = "LDA" /\ ModeOf(1) = "Absolute"
    /\ hist[1].pre.pc = 32768
    /\ program_counter = 32771

\* The register a store writes.
Stored(op, r) ==
    CASE op = "STA" -> r.a
      [] op = "STX" -> r.x
      [] op = "STY" -> r.y

\* C35: the effective address of ZeroPageX and ZeroPageY is
\* (operand + X or Y) mod 256, which is at most 0x00FF, and that of AbsoluteX
\* and AbsoluteY is (abs + X or Y) mod 65536; a store through the mode puts
\* its register at that address when it is in RAM.
C35_IndexedWraps ==
    Ran /\ hist[1].opcode # "Unknown" =>
        LET e == hist[1]
            mode == ModeOf(1)
            index == IF mode \in {"ZeroPageX", "AbsoluteX"} THEN e.pre.x ELSE e.pre.y
        IN  /\ mode \in {"ZeroPageX", "ZeroPageY"} =>
                  /\ e.addr = (OperandByte(1) + index) % 256
                  /\ e.addr \in 0..255
            /\ mode \in {"AbsoluteX", "AbsoluteY"} =>
                  e.addr = (OperandWord(1) + index) % 65536
            /\ /\ mode \in {"ZeroPageX", "ZeroPageY", "AbsoluteX", "AbsoluteY"}
               /\ e.opcode \in {"STA", "STX", "STY"}
               /\ e.addr < 8192
               => At(ram, e.addr % 2048) = Stored(e.opcode, e.pre)

\* STX $80,Y with Y = 0x80 and X = 0x7F has put 0x7F at 0x0000.
C35_Witness ==
    /\ Ran /\ hist[1].opcode = "STX" /\ ModeOf(1) = "ZeroPageY"
    /\ OperandByte(1) = 128 /\ hist[1].pre.y = 128 /\ hist[1].pre.x = 127
    /\ hist[1].addr = 0
    /\ At(ram, 0) = 127

\* STA $FF01,X with X = 0xFF has put 0x5A at 0x0000.
AbsoluteWrapped ==
    /\ Ran /\ hist[1].opcode = "STA" /\ ModeOf(1) = "AbsoluteX"
    /\ OperandWord(1) = 65281 /\ hist[1].pre.x = 255
    /\ hist[1].addr = 0
    /\ At(ram, 0) = 90

\* The status byte p with the flag of weight k set iff b.
WithFlag(p, k, b) == p - (IF Bit(p, k) THEN k ELSE 0) + (IF b THEN k ELSE 0)

\* The RAM bytes other than the one at index i are as before the call
\* hist[n].
OnlyRam(n, i) == \A j \in RamIndices \ {i} : At(ram, j) = At(hist[n].ram, j)

\* C36: on the accumulator or on an operand in RAM, ASL gives (2v) mod 256
\* and LSR v div 2; ROL gives ((2v) mod 256) + c and ROR (v div 2) + 128*c
\* for the prior carry c; C is bit 7 of v for the left and bit 0 of v for
\* the right shifts, Z and N are those of the result; the memory variants
\* write the result at the effective address and leave A, the Accumulator
\* variants write no memory.
C36_Shifts ==
    /\ Ran /\ hist[1].opcode \in {"ASL", "LSR", "ROL", "ROR"}
    /\ ModeOf(1) = "Accumulator" \/ hist[1].addr < 8192
    =>  LET e == hist[1]
            op == e.opcode
            acc == ModeOf(1) = "Accumulator"
            v == IF acc THEN e.pre.a ELSE mem_read(Before(1), e.addr)
            cin == FlagOf(e.pre.p, 1)
            result == CASE op = "ASL" -> (2 * v) % 256
                        [] op = "LSR" -> v \div 2
                        [] op = "ROL" -> ((2 * v) % 256) + cin
                        [] op = "ROR" -> (v \div 2) + (128 * cin)
            out == IF op \in {"ASL", "ROL"} THEN v >= 128 ELSE v % 2 = 1
        IN  /\ status = WithFlag(WithFlag(WithFlag(e.pre.p, 1, out), 2, result = 0),
                                 128, result >= 128)
            /\ IF acc
               THEN accumulator = result /\ ram = e.ram
               ELSE /\ accumulator = e.pre.a
                    /\ At(ram, e.addr % 2048) = result
                    /\ OnlyRam(1, e.addr % 2048)

\* ROR $10 of 0x01 with C set and A = 0xFE has left 0x80 at 0x0010, C and N
\* set, Z clear and A as it was.
C36_Witness ==
    /\ Ran /\ hist[1].opcode = "ROR" /\ ModeOf(1) = "ZeroPage"
    /\ hist[1].addr = 16 /\ At(hist[1].ram, 16) = 1
    /\ Bit(hist[1].pre.p, 1)
    /\ At(ram, 16) = 128
    /\ accumulator = 254
    /\ Bit(status, 1) /\ Bit(status, 128) /\ ~Bit(status, 2)

\* ROL A of 0x80 with C set has left A = 0x01 with C set and no byte of RAM
\* written.
AccumulatorRotated ==
    /\ Ran /\ hist[1].opcode = "ROL" /\ ModeOf(1) = "Accumulator"
    /\ hist[1].pre.a = 128 /\ Bit(hist[1].pre.p, 1)
    /\ accumulator = 1 /\ Bit(status, 1)
    /\ ram = hist[1].ram

\* C37: BIT with operand m sets Z iff (A & m) = 0, N to bit 7 and V to bit 6
\* of m, and leaves A, X, Y, SP, memory and the flags C, I and D unchanged.
C37_Bit ==
    Stepped(1, "BIT") =>
        LET e == hist[1]
            m == Operand(1)
        IN  /\ Bit(status, 2) <=> BitAnd(e.pre.a, m) = 0
            /\ Bit(status, 128) <=> m >= 128
            /\ Bit(status, 64) <=> (m \div 64) % 2 = 1
            /\ \A k \in {1, 4, 8} : Bit(status, k) <=> Bit(e.pre.p, k)
            /\ accumulator = e.pre.a
            /\ register_x = e.pre.x
            /\ register_y = e.pre.y
            /\ stack_pointer = e.pre.sp
            /\ ram = e.ram
            /\ cartridge_rom = Loaded.cartridge_rom

\* BIT $10 of 0xC0 with A = 0x3F and C, I, D set, V, N and Z clear, has set
\* N, V and Z and left C, I, D and A.
C37_Witness ==
    /\ Stepped(1, "BIT") /\ Operand(1) = 192
    /\ hist[1].pre.a = 63
    /\ hist[1].pre.p = 45
    /\ status = 239
    /\ accumulator = 63

\* C38: TXS, STA, STX and STY leave P as it was; besides PC and the cycle
\* counter, TXS changes only SP, to X, and a store changes only the byte of
\* RAM it addresses, and nothing when its address is outside RAM.
C38_NoFlags ==
    Ran /\ hist[1].opcode \in {"TXS", "STA", "STX", "STY"} =>
        LET e == hist[1]
            kept == [e.pre EXCEPT !.pc = program_counter, !.cycles = cycles]
        IN  /\ status = e.pre.p
            /\ cartridge_rom = Loaded.cartridge_rom
            /\ IF e.opcode = "TXS"
               THEN /\ Regs(Cpu) = [kept EXCEPT !.sp = e.pre.x]
                    /\ ram = e.ram
               ELSE /\ Regs(Cpu) = kept
                    /\ IF e.addr < 8192
                       THEN /\ At(ram, e.addr % 2048) = Stored(e.opcode, e.pre)
                            /\ OnlyRam(1, e.addr % 2048)
                       ELSE ram = e.ram

\* TXS with X = 0 and Z clear has set SP to 0 and left Z clear, and the
\* STA $1FFF after it has put A at index 0x07FF with P as it was.
C38_Witness ==
    /\ Stepped(1, "STA") /\ Stepped(2, "TXS")
    /\ hist[2].pre.x = 0 /\ hist[2].pre.sp # 0 /\ ~Bit(hist[2].pre.p, 2)
    /\ hist[1].pre.sp = 0 /\ hist[1].pre.p = hist[2].pre.p
    /\ hist[1].addr = 8191 /\ hist[1].pre.a = 255
    /\ At(hist[1].ram, 2047) = 0 /\ At(ram, 2047) = 255
    /\ status = hist[1].pre.p

\* STX $8000 with X = 0xFE has changed no byte of RAM or of PRG-ROM.
StoreIgnored ==
    /\ Stepped(1, "STX") /\ hist[1].addr = 32768 /\ hist[1].pre.x = 254
    /\ ram = hist[1].ram

\* The machine before the call hist[n] with bit D of P flipped.
Twin(n) == [Machine(n) EXCEPT !.status = WithFlag(@, 8, ~Bit(@, 8))]

\* C39: of two machines that differ only in bit D of P, a step of the same
\* ADC or SBC gives the same A, C, V, Z and N, and two machines that again
\* differ only in bit D.
C39_DecimalIgnored ==
    Ran /\ hist[1].opcode \in {"ADC", "SBC"} =>
        LET t == step(Twin(1))
        IN  /\ ~t.overflowed
            /\ t.accumulator = accumulator
            /\ \A k \in {1, 2, 64, 128} : Bit(t.status, k) <=> Bit(status, k)
            /\ Bit(t.status, 8) <=> ~Bit(status, 8)
            /\ Regs(t) = [Regs(Cpu) EXCEPT !.p = t.status]
            /\ t.status = WithFlag(status, 8, ~Bit(status, 8))
            /\ t.ram = ram
            /\ t.cartridge_rom = cartridge_rom

\* ADC #$01 with A = 0x09, C clear and D set has left A = 0x0A, as its twin
\* with D clear does.
C39_Witness ==
    /\ Stepped(1, "ADC") /\ Operand(1) = 1
    /\ hist[1].pre.a = 9
    /\ Bit(hist[1].pre.p, 8) /\ ~Bit(hist[1].pre.p, 1)
    /\ accumulator = 10
    /\ Bit(status, 8)
    /\ ~Bit(Twin(1).status, 8)
    /\ step(Twin(1)).accumulator = 10

\* SBC #$01 with A = 0x50, C set and D set has left A = 0x4F.
DecimalSubtracted ==
    /\ Stepped(1, "SBC") /\ Operand(1) = 1
    /\ hist[1].pre.a = 80
    /\ Bit(hist[1].pre.p, 8) /\ Bit(hist[1].pre.p, 1)
    /\ accumulator = 79

====
